---- MODULE Spec2Model ----
(***************************************************************************)
(* Asset-Metadata-Studio: the per-asset metadata pipeline                  *)
(* (backend/app/processors.py, parsing.py), the batch duplicate-name       *)
(* suffixing pass (backend/app/dedup.py) and the request handler that      *)
(* strings them together (backend/app/main.py).                            *)
(*                                                                         *)
(* A Python str is modelled as a sequence of Unicode code points, so that   *)
(* every string operation of the source (strip, split, join, casefold,      *)
(* regular-expression ranges, unicodedata.category) is computed on the      *)
(* characters the way the source computes it.                               *)
(***************************************************************************)
EXTENDS Integers, Sequences, FiniteSets, TLC

VARIABLES
    \* ---- apply_duplicate_suffixes, called on a batch of its own ----
    dpc,        \* "input" | "suffixed" | "resuffixed"
    results,    \* the List[AssetResult] handed to apply_duplicate_suffixes
    updated,    \* what apply_duplicate_suffixes returned for it
    again,      \* _apply_suffixes applied to the english names of `updated`
    \* ---- _needs_rewrite, called on an input of its own ----
    gpc,        \* "input" | "judged"
    gname,      \* the arabic_name argument
    gmix,       \* how many tags of each kind the tags argument holds
    gtags,      \* the tags argument
    gverdict,   \* what _needs_rewrite returned
    \* ---- one request: process_files -> process_assets -> the suffixing pass ----
    api_key,    \* whether SETTINGS.google_api_key is non-empty
    mpc,        \* where process_files is: "start" | "gathering" | "gathered" |
                \* "responded" | "failed" (HTTP 400)
    semaphore,  \* the value of asyncio.Semaphore(max_concurrency)
    tpc,        \* per task, where _run is: "pending" | "generating" |
                \* "rewriting" | "done" | "error"
    rawText,    \* per task, what generate_metadata returned
    rewrittenText,  \* per task, what rewrite_metadata_text returned
    record,     \* per task, the AssetResult _run returned
    rewriteCalls,   \* per task, the number of rewrite_metadata_text calls issued
    replacements,   \* per task, the number of times the parsed tuple was replaced
    gathered,   \* what process_assets returned to process_files
    final,      \* what apply_duplicate_suffixes returned to process_files
    suffixRuns, \* the number of calls of apply_duplicate_suffixes
    \* ---- a pure function of the core, called on an input of its own ----
    cpc,        \* "input" | "returned" | "reapplied"
    args,       \* the arguments of the call
    ret,        \* what the function returned
    ret2        \* what the function returned for its own output

dedupVars == <<dpc, results, updated, again>>
gateVars == <<gpc, gname, gmix, gtags, gverdict>>
taskVars == <<tpc, rawText, rewrittenText, record, rewriteCalls, replacements>>
mainVars == <<api_key, mpc, gathered, final, suffixRuns>>
pipeVars == <<api_key, mpc, semaphore, tpc, rawText, rewrittenText, record, rewriteCalls,
              replacements, gathered, final, suffixRuns>>
callVars == <<cpc, args, ret, ret2>>
vars == <<dpc, results, updated, again, gpc, gname, gmix, gtags, gverdict,
          api_key, mpc, semaphore, tpc, rawText, rewrittenText, record, rewriteCalls,
          replacements, gathered, final, suffixRuns, cpc, args, ret, ret2>>

(***************************************************************************)
(* Bounds of the model.                                                    *)
(***************************************************************************)
MaxBatch == 3
MaxGateTags == 6
NumTasks == 2
max_concurrency == 1
MaxTokens == 2
MaxLines == 3
MaxMergeTags == 3

(***************************************************************************)
(* Python str primitives on sequences of code points.                      *)
(***************************************************************************)
SetMin(S) == CHOOSE x \in S : \A y \in S : x <= y
SetMax(S) == CHOOSE x \in S : \A y \in S : x >= y

\* str.isspace() for one character (also what str.strip()/str.split() remove)
IsSpace(c) ==
    \/ c \in 9..13
    \/ c \in 28..32
    \/ c \in {\h0085, \h00A0, \h1680, \h2028, \h2029, \h202F, \h205F, \h3000}
    \/ c \in \h2000..\h200A

\* str.strip()
Strip(s) ==
    LET keep == {i \in 1..Len(s) : ~IsSpace(s[i])}
    IN  IF keep = {} THEN <<>> ELSE SubSeq(s, SetMin(keep), SetMax(keep))

\* str.strip(chars)
StripChars(s, chars) ==
    LET keep == {i \in 1..Len(s) : s[i] \notin chars}
    IN  IF keep = {} THEN <<>> ELSE SubSeq(s, SetMin(keep), SetMax(keep))

\* the members of `cuts` within lo..hi in increasing order (by halving, so
\* that the depth of the evaluation stays logarithmic in the length)
RECURSIVE SortedIn(_, _, _)
SortedIn(cuts, lo, hi) ==
    IF lo > hi THEN <<>>
    ELSE IF lo = hi THEN (IF lo \in cuts THEN <<lo>> ELSE <<>>)
    ELSE LET mid == (lo + hi) \div 2
         IN  SortedIn(cuts, lo, mid) \o SortedIn(cuts, mid + 1, hi)

\* the pieces of s between the positions in `cuts` (a set of indices of s),
\* empty pieces included: str.split(sep) for a one-character sep, re.split
PiecesAt(s, cuts) ==
    LET b == <<0>> \o SortedIn(cuts, 1, Len(s)) \o <<Len(s) + 1>>
    IN  [j \in 1..(Len(b) - 1) |-> SubSeq(s, b[j] + 1, b[j + 1] - 1)]

\* str.split(ch)
SplitChar(s, ch) == PiecesAt(s, {i \in 1..Len(s) : s[i] = ch})

\* str.split(): the maximal runs of non-whitespace, in order
SplitWs(s) ==
    SelectSeq(PiecesAt(s, {i \in 1..Len(s) : IsSpace(s[i])}), LAMBDA p : p /= <<>>)

\* sep.join(parts[lo..hi]), by halving
RECURSIVE JoinRange(_, _, _, _)
JoinRange(sep, parts, lo, hi) ==
    IF lo > hi THEN <<>>
    ELSE IF lo = hi THEN parts[lo]
    ELSE LET mid == (lo + hi) \div 2
         IN  JoinRange(sep, parts, lo, mid) \o sep \o JoinRange(sep, parts, mid + 1, hi)

\* sep.join(parts)
Join(sep, parts) == JoinRange(sep, parts, 1, Len(parts))

\* str.find(sub) + 1: the 1-based index of the first occurrence, 0 when absent
Find(s, sub) ==
    LET at == {i \in 1..(Len(s) - Len(sub) + 1) : SubSeq(s, i, i + Len(sub) - 1) = sub}
    IN  IF at = {} THEN 0 ELSE SetMin(at)

\* `sub in s`
Contains(s, sub) == Find(s, sub) /= 0

\* str.split(sub, 1) for a sub that occurs in s: <<left, right>>
SplitOnce(s, sub) ==
    LET i == Find(s, sub)
    IN  <<SubSeq(s, 1, i - 1), SubSeq(s, i + Len(sub), Len(s))>>

\* str.startswith(prefix)
StartsWith(s, prefix) == Len(s) >= Len(prefix) /\ SubSeq(s, 1, Len(prefix)) = prefix

\* the decimal digits of a natural number, as code points
RECURSIVE Digits(_)
Digits(n) == IF n < 10 THEN <<48 + n>> ELSE Digits(n \div 10) \o <<48 + (n % 10)>>

\* a formatting that forgets the zero padding
FormatUnpadded(n) == Digits(n)

\* format(n, "03d"): zero-padded to a width of at least 3
Format03d(n) ==
    LET d == Digits(n)
    IN  IF Len(d) >= 3 THEN d ELSE [i \in 1..(3 - Len(d)) |-> 48] \o d

(***************************************************************************)
(* Unicode data for the characters of the model (unicodedata, str.lower,   *)
(* str.casefold), restricted to the code points the model's inputs use.    *)
(***************************************************************************)
\* unicodedata.category(c)
Category(c) ==
    CASE c \in 65..90 -> "Lu"                       \* A-Z
      [] c \in 97..122 -> "Ll"                      \* a-z
      [] c \in 48..57 -> "Nd"                       \* 0-9
      [] c = 32 -> "Zs"
      [] c \in 9..13 -> "Cc"
      [] c \in {33, 34, 35, 37, 38, 39, 42, 44, 46, 47, 58, 59, 63, 64} -> "Po"
      [] c = 45 -> "Pd"                             \* hyphen-minus
      [] c \in {40, 91, 123} -> "Ps"
      [] c \in {41, 93, 125} -> "Pe"
      [] c \in {43, 60, 61, 62, 124, 126} -> "Sm"   \* includes |
      [] c = 95 -> "Pc"
      [] c \in {\h00C0, \h00C9} -> "Lu"             \* A-grave, E-acute
      [] c \in {\h00E0, \h00E9, \h00DF} -> "Ll"     \* a-grave, e-acute, sharp s
      [] c \in \h0300..\h036F -> "Mn"               \* combining diacritics
      [] c \in {\h060C, \h061B, \h061F} -> "Po"     \* Arabic comma, semicolon, ?
      [] c \in \h0620..\h063F -> "Lo"               \* Arabic letters
      [] c = \h0640 -> "Lm"                         \* tatweel
      [] c \in \h0641..\h064A -> "Lo"
      [] c \in \h064B..\h065F -> "Mn"               \* harakat
      [] c \in \h0660..\h0669 -> "Nd"               \* Arabic-Indic digits
      [] c = \h0670 -> "Mn"
      [] c \in \h0671..\h06D3 -> "Lo"               \* incl. alef wasla, Farsi yeh
      [] c \in \h06F0..\h06F9 -> "Nd"               \* Extended Arabic-Indic digits
      [] c \in {\h2013, \h2014} -> "Pd"             \* en dash, em dash
      [] c = \h2022 -> "Po"                         \* bullet
      [] c \in {\h200B, \h200C, \h200D, \h200E, \h200F} -> "Cf"
      [] c = \h00A0 -> "Zs"
      [] OTHER -> "Cn"

\* str.lower() of one character
LowerChar(c) ==
    IF c \in 65..90 \/ c \in {\h00C0, \h00C9} THEN c + 32 ELSE c

Lower(s) == [i \in 1..Len(s) |-> LowerChar(s[i])]

\* str.casefold() of one character (a string: sharp s folds to "ss")
CasefoldChar(c) ==
    IF c = \h00DF THEN <<115, 115>> ELSE <<LowerChar(c)>>

\* "".join(parts), list.extend in a loop
Concat(parts) == JoinRange(<<>>, parts, 1, Len(parts))

Casefold(s) == Concat([i \in 1..Len(s) |-> CasefoldChar(s[i])])

\* unicodedata.normalize("NFKC", s): canonical composition of a base letter
\* with a following combining grave/acute, and the compatibility mapping of
\* the no-break space; every other character of the model is NFKC-stable.
Compose(base, mark) ==
    CASE base = 101 /\ mark = \h0301 -> \h00E9      \* e + acute
      [] base = 69 /\ mark = \h0301 -> \h00C9       \* E + acute
      [] base = 97 /\ mark = \h0300 -> \h00E0       \* a + grave
      [] base = 65 /\ mark = \h0300 -> \h00C0       \* A + grave
      [] base = \h0627 /\ mark = \h0653 -> \h0622   \* alef + madda
      [] base = \h0627 /\ mark = \h0654 -> \h0623   \* alef + hamza above
      [] base = \h0627 /\ mark = \h0655 -> \h0625   \* alef + hamza below
      [] base = \h0648 /\ mark = \h0654 -> \h0624   \* waw + hamza above
      [] base = \h064A /\ mark = \h0654 -> \h0626   \* yeh + hamza above
      [] OTHER -> 0

RECURSIVE NFKC(_)
NFKC(s) ==
    IF s = <<>> THEN <<>>
    ELSE IF Len(s) >= 2 /\ Compose(s[1], s[2]) /= 0
         THEN <<Compose(s[1], s[2])>> \o NFKC(SubSeq(s, 3, Len(s)))
    ELSE <<(IF s[1] = \h00A0 THEN 32 ELSE s[1])>> \o NFKC(Tail(s))

(***************************************************************************)
(* backend/app/models.py                                                   *)
(***************************************************************************)
AssetResult(task_id, display_name, english_name, arabic_name, tags, raw_text) ==
    [task_id |-> task_id, display_name |-> display_name,
     english_name |-> english_name, arabic_name |-> arabic_name,
     tags |-> tags, raw_text |-> raw_text]

(***************************************************************************)
(* backend/app/dedup.py                                                    *)
(***************************************************************************)
\* str.translate(ARABIC_LETTER_MAP) of one character (a string: tatweel is deleted)
ARABIC_LETTER_MAP(c) ==
    CASE c \in {\h0622, \h0623, \h0625, \h0671} -> <<\h0627>>   \* alef forms -> alef
      [] c = \h0649 -> <<\h064A>>                               \* alef maksura -> yeh
      [] c = \h0624 -> <<\h0648>>                               \* waw with hamza -> waw
      [] c = \h0626 -> <<\h064A>>                               \* yeh with hamza -> yeh
      [] c = \h0629 -> <<\h0647>>                               \* teh marbuta -> heh
      [] c = \h0640 -> <<>>                                     \* tatweel
      [] OTHER -> <<c>>

\* str.translate(ARABIC_DIGITS_MAP) of one character
ARABIC_DIGITS_MAP(c) ==
    CASE c \in \h0660..\h0669 -> 48 + (c - \h0660)
      [] c \in \h06F0..\h06F9 -> 48 + (c - \h06F0)
      [] OTHER -> c

\* category.startswith(("L", "N"))
LetterOrNumber == {"Lu", "Ll", "Lt", "Lm", "Lo", "Nd", "Nl", "No"}

\* a loop that puts a space where it meets a mark or a format character
NormalizeCharSpacingMarks(c) ==
    IF Category(c) \in LetterOrNumber THEN <<c>> ELSE <<32>>

\* the loop of _normalize_key over the characters of the folded value
NormalizeChar(c) ==
    IF Category(c) \in {"Mn", "Me", "Cf"} THEN <<>>
    ELSE IF Category(c) \in LetterOrNumber THEN <<c>>
    ELSE IF IsSpace(c) THEN <<32>>
    ELSE <<32>>

_normalize_key(value) ==
    LET nfkc == NFKC(value)
        letters == Concat([i \in 1..Len(nfkc) |-> ARABIC_LETTER_MAP(nfkc[i])])
        digits == [i \in 1..Len(letters) |-> ARABIC_DIGITS_MAP(letters[i])]
        folded == Casefold(digits)
        normalized_chars == Concat([i \in 1..Len(folded) |-> NormalizeChar(folded[i])])
    IN  Strip(Join(<<32>>, SplitWs(normalized_chars)))

\* a cleaning that trims the ends and leaves the inside as it is
CleanBaseTrimOnly(value) == Strip(value)

_clean_base(value) == Strip(Join(<<32>>, SplitWs(value)))

\* counts: the number of occurrences of a non-empty key (counts.get(key, 0))
RECURSIVE CountKeys(_, _)
CountKeys(keys, counts) ==
    IF keys = <<>> THEN counts
    ELSE LET key == Head(keys)
         IN  IF key = <<>> THEN CountKeys(Tail(keys), counts)
             ELSE CountKeys(Tail(keys),
                     [k \in DOMAIN counts \cup {key} |->
                        IF k = key
                        THEN (IF key \in DOMAIN counts THEN counts[key] ELSE 0) + 1
                        ELSE counts[k]])

DictGet(d, k) == IF k \in DOMAIN d THEN d[k] ELSE 0

\* the second loop of _apply_suffixes, from position i on
RECURSIVE SuffixLoop(_, _, _, _, _, _)
SuffixLoop(names, keys, counts, i, seen, out) ==
    IF i > Len(names) THEN out
    ELSE LET original == names[i]
             key == keys[i]
             base == _clean_base(original)
         IN  IF base = <<>> \/ DictGet(counts, key) <= 1
             THEN SuffixLoop(names, keys, counts, i + 1, seen, Append(out, base))
             ELSE LET n == DictGet(seen, key) + 1
                      seen2 == [k \in DOMAIN seen \cup {key} |->
                                   IF k = key THEN n ELSE seen[k]]
                  IN  SuffixLoop(names, keys, counts, i + 1, seen2,
                          Append(out, base \o <<32, 45, 32>> \o Format03d(n)))

_apply_suffixes(names) ==
    LET keys == [i \in 1..Len(names) |-> _normalize_key(names[i])]
        counts == CountKeys(keys, <<>>)
    IN  SuffixLoop(names, keys, counts, 1, <<>>, <<>>)

\* a rebuild of the record that forgets the raw text
ReplaceDroppingRaw(result, english, arabic) ==
    AssetResult(result.task_id, result.display_name, english, arabic, result.tags, <<>>)

\* dataclasses.replace(result, english_name=english, arabic_name=arabic)
Replace(result, english, arabic) ==
    [result EXCEPT !.english_name = english, !.arabic_name = arabic]

\* zip(results, updated_english, updated_arabic)
ZipLen(a, b, c) == SetMin({Len(a), Len(b), Len(c)})

apply_duplicate_suffixes(rs) ==
    LET english_names == [i \in 1..Len(rs) |-> rs[i].english_name]
        arabic_names == [i \in 1..Len(rs) |-> rs[i].arabic_name]
        updated_english == _apply_suffixes(english_names)
        updated_arabic == _apply_suffixes(arabic_names)
    IN  [i \in 1..ZipLen(rs, updated_english, updated_arabic) |->
            Replace(rs[i], updated_english[i], updated_arabic[i])]

(***************************************************************************)
(* Inputs of the batch specification: names as the pipeline can deliver     *)
(* them (parsed names, "" for an error record) and as any caller of         *)
(* apply_duplicate_suffixes can pass them.                                  *)
(***************************************************************************)
Str_Logo == <<76, 111, 103, 111>>                       \* "Logo"
Str_logo == <<108, 111, 103, 111>>                      \* "logo"
Str_Banner == <<66, 97, 110, 110, 101, 114>>            \* "Banner"
Str_Logo001 == <<76, 111, 103, 111, 32, 45, 32, 48, 48, 49>>  \* "Logo - 001"
Str_QQ == <<63, 63>>                                    \* "??"
Str_LogoWs == <<32, 76, 111, 103, 111, 32, 32>>         \* " Logo  "
Str_BigLogoWide == <<66, 105, 103, 32, 32>> \o Str_Logo   \* "Big  Logo"
Ar_Shiar == <<\h0634, \h0639, \h0627, \h0631>>          \* "logo" in Arabic
Ar_Lafita == <<\h0644, \h0627, \h0641, \h062A, \h0629>> \* "banner" in Arabic
Ar_Mabna == <<\h0645, \h0628, \h0646, \h0649>>          \* "building", alef maksura
Ar_MabnaYeh == <<\h0645, \h0628, \h0646, \h064A>>       \* "building", yeh

\* (english_name, arabic_name) of the entries of an input batch
NamePool ==
    { <<Str_Logo, Ar_Shiar>>, <<Str_logo, Ar_Shiar>>, <<Str_Banner, Ar_Lafita>>,
      <<Str_Logo001, Ar_Mabna>>, <<Str_QQ, Ar_MabnaYeh>>, <<<<>>, <<>>>>,
      <<Str_LogoWs, <<32>>>>, <<Str_BigLogoWide, Ar_Lafita>> }

\* a batch of n results: entry i has task id i, its own label, tags and raw text
Batches(n) ==
    { [i \in 1..n |-> AssetResult(i, <<100 + i>>, f[i][1], f[i][2], <<116, 48 + i>>, <<114, 48 + i>>)] :
        f \in [1..n -> NamePool] }

NoList == <<"none">>

GateIdle ==
    /\ gpc = "idle"
    /\ gname = <<>>
    /\ gmix = <<>>
    /\ gtags = <<>>
    /\ gverdict = FALSE

NoText == <<-1>>

CallIdle ==
    /\ cpc = "idle"
    /\ args = <<>>
    /\ ret = NoText
    /\ ret2 = NoText

PipeIdle ==
    /\ api_key = FALSE
    /\ mpc = "idle"
    /\ semaphore = 0
    /\ tpc = <<>>
    /\ rawText = <<>>
    /\ rewrittenText = <<>>
    /\ record = <<>>
    /\ rewriteCalls = <<>>
    /\ replacements = <<>>
    /\ gathered = NoList
    /\ final = NoList
    /\ suffixRuns = 0

InitDedup ==
    /\ dpc = "input"
    /\ results \in UNION {Batches(n) : n \in 0..MaxBatch}
    /\ updated = NoList
    /\ again = NoList
    /\ GateIdle
    /\ PipeIdle
    /\ CallIdle

\* main.py: results = apply_duplicate_suffixes(results)
ApplySuffixes ==
    /\ dpc = "input"
    /\ updated' = apply_duplicate_suffixes(results)
    /\ dpc' = "suffixed"
    /\ UNCHANGED <<results, again>>
    /\ UNCHANGED <<gateVars, pipeVars, callVars>>

\* the suffixer run on its own output (the suffixed names as grouping input)
ApplyAgain ==
    /\ dpc = "suffixed"
    /\ again' = _apply_suffixes([i \in 1..Len(updated) |-> updated[i].english_name])
    /\ dpc' = "resuffixed"
    /\ UNCHANGED <<results, updated>>
    /\ UNCHANGED <<gateVars, pipeVars, callVars>>

NextDedup == ApplySuffixes \/ ApplyAgain

SpecDedup == InitDedup /\ [][NextDedup]_vars

(***************************************************************************)
(* Properties of the duplicate suffixer (SpecDedup).                       *)
(***************************************************************************)
IsBlank(s) == \A i \in 1..Len(s) : IsSpace(s[i])

EnglishNames(rs) == [i \in 1..Len(rs) |-> rs[i].english_name]
ArabicNames(rs) == [i \in 1..Len(rs) |-> rs[i].arabic_name]

\* C1: after the suffixing pass no two entries of the batch have an identical
\* English name, and no two an identical Arabic name, unless the name of at
\* least one of the two was blank before the pass.
C1_NoIdenticalNames ==
    dpc /= "input" =>
        \A i, j \in 1..Len(updated) :
            i < j =>
                /\ updated[i].english_name = updated[j].english_name
                       => IsBlank(results[i].english_name) \/ IsBlank(results[j].english_name)
                /\ updated[i].arabic_name = updated[j].arabic_name
                       => IsBlank(results[i].arabic_name) \/ IsBlank(results[j].arabic_name)

\* the number of names with the key of names[i] in the whole list / up to i
KeyCount(names, i) ==
    Cardinality({j \in 1..Len(names) : _normalize_key(names[j]) = _normalize_key(names[i])})
KeyIndex(names, i) ==
    Cardinality({j \in 1..i : _normalize_key(names[j]) = _normalize_key(names[i])})

\* " - " and the 3-digit zero-padded decimal of n (n < 1000)
Suffix3(n) == <<32, 45, 32, 48 + (n \div 100), 48 + ((n \div 10) % 10), 48 + (n % 10)>>

C20_UniquePassesTrimmed ==
    dpc /= "input" =>
        \A names \in {EnglishNames(results), ArabicNames(results)} :
            LET out == IF names = EnglishNames(results)
                       THEN EnglishNames(updated) ELSE ArabicNames(updated)
            IN  \A i \in 1..Len(names) :
                    (KeyCount(names, i) = 1 \/ IsBlank(names[i])) => out[i] = Strip(names[i])

\* a name without its leading and trailing whitespace and with every run of
\* whitespace inside it replaced by one space
WhitespaceCollapsed(s) ==
    LET keep == {i \in 1..Len(s) :
                    \/ ~IsSpace(s[i])
                    \/ /\ i > 1
                       /\ ~IsSpace(s[i - 1])
                       /\ \E j \in (i + 1)..Len(s) : ~IsSpace(s[j])}
        at == SortedIn(keep, 1, Len(s))
    IN  [k \in 1..Len(at) |-> IF IsSpace(s[at[k]]) THEN 32 ELSE s[at[k]]]

\* C20 amended: such a name is output without a suffix, with its leading and
\* trailing whitespace removed and every run of whitespace inside it
\* replaced by one space; a blank name is output as "".
C20_UniquePassesCollapsed ==
    dpc /= "input" =>
        \A names \in {EnglishNames(results), ArabicNames(results)} :
            LET out == IF names = EnglishNames(results)
                       THEN EnglishNames(updated) ELSE ArabicNames(updated)
            IN  \A i \in 1..Len(names) :
                    (KeyCount(names, i) = 1 \/ IsBlank(names[i])) =>
                        out[i] = WhitespaceCollapsed(names[i])

\* next to a repeated name, "Big  Logo" with a key of its own came out as
\* "Big Logo" and a name of one space came out empty
C20_Witness ==
    /\ dpc = "suffixed"
    /\ \E i \in 1..Len(results) :
          /\ results[i].english_name = Str_BigLogoWide
          /\ KeyCount(EnglishNames(results), i) = 1
          /\ updated[i].english_name = <<66, 105, 103, 32>> \o Str_Logo
    /\ \E i \in 1..Len(results) :
          /\ results[i].arabic_name = <<32>>
          /\ updated[i].arabic_name = <<>>
    /\ \E i \in 1..Len(results) : KeyCount(ArabicNames(results), i) > 1

\* C3: the suffixer run on its own output changes nothing.
C3_SuffixIdempotent ==
    dpc = "resuffixed" => again = EnglishNames(updated)

\* C4: the pass returns as many entries as it was given, entry i from input
\* entry i, with task id, display label, tags and raw text unchanged.
C4_FrameOfSuffixing ==
    dpc /= "input" =>
        /\ Len(updated) = Len(results)
        /\ \A i \in 1..Len(results) :
               /\ updated[i].task_id = results[i].task_id
               /\ updated[i].display_name = results[i].display_name
               /\ updated[i].tags = results[i].tags
               /\ updated[i].raw_text = results[i].raw_text
               /\ DOMAIN updated[i] = DOMAIN results[i]

\* a batch of three in which the pass has changed a name
C4_Witness ==
    /\ dpc = "suffixed"
    /\ Len(results) = 3
    /\ \E i \in 1..3 : updated[i].english_name /= results[i].english_name
    /\ \E i \in 1..3 : updated[i].english_name = results[i].english_name

(***************************************************************************)
(* backend/app/processors.py: the pure helpers                             *)
(***************************************************************************)
\* one character matched by ARABIC_RE
ARABIC_RE(c) ==
    \/ c \in \h0600..\h06FF
    \/ c \in \h0750..\h077F
    \/ c \in \h08A0..\h08FF
    \/ c \in \hFB50..\hFDFF
    \/ c \in \hFE70..\hFEFF

_has_arabic(value) == \E i \in 1..Len(value) : ARABIC_RE(value[i])

\* any(("A" <= ch <= "Z") or ("a" <= ch <= "z") for ch in tag); LATIN_RE.search
_has_latin(value) == \E i \in 1..Len(value) : value[i] \in 65..90 \/ value[i] \in 97..122

CommaSpace == <<44, 32>>

\* a loop body that keeps every combined token as it is
NormalizeKeepingCombined(raw_tag) ==
    IF Strip(raw_tag) = <<>> THEN <<>> ELSE <<Strip(raw_tag)>>

\* what one raw_tag of the loop of _normalize_tag_format adds to `normalized`
NormalizeRawTag(raw_tag) ==
    LET tag == Strip(raw_tag)
    IN  IF tag = <<>> THEN <<>>
        ELSE IF Contains(tag, <<47>>)
             THEN LET parts == SplitOnce(tag, <<47>>)
                      left == Strip(parts[1])
                      right == Strip(parts[2])
                  IN  IF left /= <<>> /\ right /= <<>> THEN <<left, right>> ELSE <<tag>>
        ELSE <<tag>>

_normalize_tag_format(tags) ==
    IF tags = <<>> THEN <<>>
    ELSE LET raw == SplitChar(tags, 44)
         IN  Join(CommaSpace, Concat([i \in 1..Len(raw) |-> NormalizeRawTag(raw[i])]))

\* [tag.strip() for tag in tags.split(",") if tag.strip()]
StrippedTags(tags) ==
    LET raw == SplitChar(tags, 44)
    IN  SelectSeq([i \in 1..Len(raw) |-> Strip(raw[i])], LAMBDA t : t /= <<>>)

\* <<len(tag_list), arabic_count, latin_count>>
_summarize_tags(tags) ==
    LET tag_list == StrippedTags(tags)
    IN  << Len(tag_list),
           Cardinality({i \in 1..Len(tag_list) : _has_arabic(tag_list[i])}),
           Cardinality({i \in 1..Len(tag_list) : _has_latin(tag_list[i])}) >>

\* a maximum that forgets its first argument
SecondOnly(a, b) == b

Max2(a, b) == IF a >= b THEN a ELSE b

\* a gate without the upper bound on the number of tags
NeedsRewriteNoUpperBound(arabic_name, tags) ==
    LET t == _summarize_tags(tags)
        min_per_language == Max2(1, t[1] \div 4)
    IN  IF ~_has_arabic(arabic_name) THEN TRUE
        ELSE IF t[1] = 0 THEN TRUE
        ELSE t[2] < min_per_language \/ t[3] < min_per_language

\* a gate that scores the Arabic tags only
NeedsRewriteArabicOnly(arabic_name, tags) ==
    LET t == _summarize_tags(tags)
        min_per_language == Max2(1, t[1] \div 4)
    IN  IF ~_has_arabic(arabic_name) THEN TRUE
        ELSE IF t[1] = 0 THEN TRUE
        ELSE IF t[1] > 80 THEN TRUE
        ELSE t[2] < min_per_language

_needs_rewrite(arabic_name, tags) ==
    LET t == _summarize_tags(tags)
        total == t[1]
        arabic_count == t[2]
        latin_count == t[3]
        min_per_language == Max2(1, total \div 4)      \* max(1, int(total * 0.25))
    IN  IF ~_has_arabic(arabic_name) THEN TRUE
        ELSE IF total = 0 THEN TRUE
        ELSE IF total > 80 THEN TRUE
        ELSE arabic_count < min_per_language \/ latin_count < min_per_language

(***************************************************************************)
(* backend/app/parsing.py                                                  *)
(***************************************************************************)
\* the characters _clean_segment strips: - en dash, em dash / | : bullet
SegmentEdgeChars == {45, \h2013, \h2014, 47, 124, 58, \h2022}

_clean_segment(value) == Strip(StripChars(Strip(value), SegmentEdgeChars))

\* TAG_SPLIT_RE: the Latin comma and the Arabic comma
TAG_SPLIT_RE(c) == c \in {44, \h060C}

_split_tags(value) ==
    IF value = <<>> THEN <<>>
    ELSE LET parts == PiecesAt(value, {i \in 1..Len(value) : TAG_SPLIT_RE(value[i])})
         IN  SelectSeq([i \in 1..Len(parts) |-> _clean_segment(parts[i])],
                       LAMBDA t : t /= <<>>)

SlashPair(a, b) == a \o <<32, 47, 32>> \o b

\* a repair that pairs by index and forgets the leftovers of the longer list
PairTagsOnly(primary_tags, extra_tags, pair_count) ==
    [i \in 1..pair_count |-> SlashPair(primary_tags[i], extra_tags[i])]

\* the language-split repair: pair by index, then the leftovers of the longer list
PairTags(primary_tags, extra_tags, pair_count) ==
    [i \in 1..pair_count |-> SlashPair(primary_tags[i], extra_tags[i])]
        \o SubSeq(primary_tags, pair_count + 1, Len(primary_tags))
        \o SubSeq(extra_tags, pair_count + 1, Len(extra_tags))

\* sum(1 for tag in primary_tags if _has_latin(tag) and not _has_arabic(tag))
LatinOnlyCount(tags) ==
    Cardinality({i \in 1..Len(tags) : _has_latin(tags[i]) /\ ~_has_arabic(tags[i])})

\* sum(1 for tag in extra_tags if _has_arabic(tag) and not _has_latin(tag))
ArabicOnlyCount(tags) ==
    Cardinality({i \in 1..Len(tags) : _has_arabic(tags[i]) /\ ~_has_latin(tags[i])})

Min2(a, b) == IF a <= b THEN a ELSE b

\* _merge_tag_lines once primary_tags and extra_tags are split
MergeTags(primary_tags, extra_tags, continuation_lines) ==
    IF continuation_lines = <<>> THEN Join(CommaSpace, primary_tags)
    ELSE IF primary_tags = <<>> THEN Join(CommaSpace, extra_tags)
    ELSE IF extra_tags = <<>> THEN Join(CommaSpace, primary_tags)
    ELSE IF /\ LatinOnlyCount(primary_tags) >= Max2(1, Len(primary_tags) \div 2)
            /\ ArabicOnlyCount(extra_tags) >= Max2(1, Len(extra_tags) \div 2)
         THEN Join(CommaSpace,
                   PairTags(primary_tags, extra_tags, Min2(Len(primary_tags), Len(extra_tags))))
    ELSE Join(CommaSpace, primary_tags \o extra_tags)

_merge_tag_lines(primary_line, continuation_lines) ==
    MergeTags(_split_tags(primary_line),
              _split_tags(Join(CommaSpace, continuation_lines)),
              continuation_lines)

\* " - ", " en-dash ", " em-dash ", " / ", " bullet ", " /", "/ ", " | ", "|"
SEPARATORS ==
    << <<32, 45, 32>>, <<32, \h2013, 32>>, <<32, \h2014, 32>>, <<32, 47, 32>>,
       <<32, \h2022, 32>>, <<32, 47>>, <<47, 32>>, <<32, 124, 32>>, <<124>> >>

\* the index of the first character of value that satisfies Test, 0 if none
\* (re.search(...).start() + 1)
FirstIndex(value, Test(_)) ==
    LET at == {i \in 1..Len(value) : Test(value[i])}
    IN  IF at = {} THEN 0 ELSE SetMin(at)

IsLatinChar(c) == c \in 65..90 \/ c \in 97..122

\* the cut of a mixed-script value at the first character of the later script
CutAtScripts(value, first_arabic, first_latin) ==
    IF first_arabic = 0 \/ first_latin = 0 THEN <<_clean_segment(value), <<>>>>
    ELSE IF first_latin < first_arabic
         THEN <<_clean_segment(SubSeq(value, 1, first_arabic - 1)),
                _clean_segment(SubSeq(value, first_arabic, Len(value)))>>
    ELSE <<_clean_segment(SubSeq(value, first_latin, Len(value))),
           _clean_segment(SubSeq(value, 1, first_latin - 1))>>

\* the tail of _split_bilingual_name, reached when no separator split is accepted
SplitByScript(value) ==
    IF ~_has_arabic(value) THEN <<_clean_segment(value), <<>>>>
    ELSE IF ~_has_latin(value) THEN <<<<>>, _clean_segment(value)>>
    ELSE CutAtScripts(value, FirstIndex(value, ARABIC_RE), FirstIndex(value, IsLatinChar))

\* a loop that accepts every split with two non-empty sides
SplitAcceptedAnyScript(left, right) == left /= <<>> /\ right /= <<>>

\* whether the loop accepts the split (left, right): both sides non-empty and
\* exactly one of them with Arabic
SplitAccepted(left, right) ==
    left /= <<>> /\ right /= <<>> /\ _has_arabic(left) /= _has_arabic(right)

\* a loop that takes the right side for the English name whatever its script
AcceptedSplitRightEnglish(left, right) == <<_clean_segment(right), _clean_segment(left)>>

\* the pair the loop returns for an accepted split
AcceptedSplit(left, right) ==
    IF _has_arabic(right)
    THEN <<_clean_segment(left), _clean_segment(right)>>
    ELSE <<_clean_segment(right), _clean_segment(left)>>

\* [part.strip() for part in value.split(separator, 1)]
StrippedParts(value, separator) ==
    <<Strip(SplitOnce(value, separator)[1]), Strip(SplitOnce(value, separator)[2])>>

\* the loop of _split_bilingual_name over SEPARATORS, from separator k on
RECURSIVE SeparatorLoop(_, _)
SeparatorLoop(value, k) ==
    IF k > Len(SEPARATORS) THEN SplitByScript(value)
    ELSE IF /\ Contains(value, SEPARATORS[k])
            /\ SplitAccepted(StrippedParts(value, SEPARATORS[k])[1],
                             StrippedParts(value, SEPARATORS[k])[2])
         THEN AcceptedSplit(StrippedParts(value, SEPARATORS[k])[1],
                            StrippedParts(value, SEPARATORS[k])[2])
    ELSE SeparatorLoop(value, k + 1)

\* _split_bilingual_name once the whitespace of value is collapsed
SplitCollapsed(value) ==
    IF value = <<>> THEN <<<<>>, <<>>>>
    ELSE IF /\ Contains(value, <<124>>)
            /\ StrippedParts(value, <<124>>)[1] /= <<>>
            /\ StrippedParts(value, <<124>>)[2] /= <<>>
         THEN StrippedParts(value, <<124>>)
    ELSE SeparatorLoop(value, 1)

\* <<english, arabic>>
_split_bilingual_name(value) == SplitCollapsed(Join(<<32>>, SplitWs(value)))

\* the characters str.splitlines() breaks a text at
IsLineBreak(c) == c \in {10, 11, 12, 13, 28, 29, 30, \h0085, \h2028, \h2029}

\* [line.strip() for line in text.splitlines() if line.strip()]
Lines(text) ==
    LET raw == PiecesAt(text, {i \in 1..Len(text) : IsLineBreak(text[i])})
    IN  SelectSeq([i \in 1..Len(raw) |-> Strip(raw[i])], LAMBDA l : l /= <<>>)

Label_AssetName == <<97, 115, 115, 101, 116, 32, 110, 97, 109, 101, 58>>   \* "asset name:"
Label_Tags == <<116, 97, 103, 115, 58>>                                    \* "tags:"

IsAssetLine(line) == StartsWith(Lower(line), Label_AssetName)
IsTagsLine(line) == StartsWith(Lower(line), Label_Tags)

\* line.split(":", 1)[1].strip() if ":" in line else ""
ValueAfterColon(line) ==
    IF Contains(line, <<58>>) THEN Strip(SplitOnce(line, <<58>>)[2]) ELSE <<>>

\* a scan that falls back on the first line when no line has the label
LastLineOrFirst(lines, idx) ==
    IF idx = {} THEN (IF lines = <<>> THEN <<>> ELSE lines[1]) ELSE lines[SetMax(idx)]

\* the last line the first loop of parse_metadata assigns to asset_line /
\* tags_line ("" when there is none), from the indexes of the labelled lines
LastLine(lines, idx) == IF idx = {} THEN <<>> ELSE lines[SetMax(idx)]

AssetLineIndexes(lines) == {i \in 1..Len(lines) : IsAssetLine(lines[i])}
TagsLineIndexes(lines) == {i \in 1..Len(lines) : ~IsAssetLine(lines[i]) /\ IsTagsLine(lines[i])}

\* whether the continuation loop of parse_metadata takes the line
IsContinuation(line) ==
    /\ ~IsAssetLine(line)
    /\ ~IsTagsLine(line)
    /\ \/ Contains(line, <<44>>)
       \/ Contains(line, <<\h060C>>)
       \/ (_has_arabic(line) /\ ~_has_latin(line))

\* a scan that skips the lines it does not take and goes on to the end
ContinuationLinesSkipping(lines, tags_line_index) ==
    IF tags_line_index = 0 THEN <<>>
    ELSE SelectSeq(SubSeq(lines, tags_line_index + 1, Len(lines)), IsContinuation)

\* the continuation loop: the lines after the tags line (1-based index, 0 when
\* there is none) up to the first line the loop does not take
ContinuationLines(lines, tags_line_index) ==
    LET stops == {i \in (tags_line_index + 1)..Len(lines) : ~IsContinuation(lines[i])}
    IN  IF tags_line_index = 0 THEN <<>>
        ELSE SubSeq(lines, tags_line_index + 1,
                    IF stops = {} THEN Len(lines) ELSE SetMin(stops) - 1)

\* the recovery of an Arabic name from the line after asset_line_index, the
\* index of the FIRST "asset name:" line
RecoverName(lines, asset_value, asset_line_index) ==
    IF /\ asset_value /= <<>>
       /\ ~_has_arabic(asset_value)
       /\ asset_line_index /= 0
       /\ asset_line_index + 1 <= Len(lines)
       /\ _has_arabic(lines[asset_line_index + 1])
       /\ ~IsTagsLine(lines[asset_line_index + 1])
    THEN SlashPair(asset_value, lines[asset_line_index + 1])
    ELSE asset_value

\* return english, arabic, tags_value
ParseResult(names, tags_value) == <<names[1], names[2], tags_value>>

\* parse_metadata once the labelled lines are found
ParseLabelled(lines, assetIdx, tagsIdx) ==
    ParseResult(
        _split_bilingual_name(
            RecoverName(lines, ValueAfterColon(LastLine(lines, assetIdx)),
                        IF assetIdx = {} THEN 0 ELSE SetMin(assetIdx))),
        _merge_tag_lines(
            ValueAfterColon(LastLine(lines, tagsIdx)),
            ContinuationLines(lines, IF tagsIdx = {} THEN 0 ELSE SetMax(tagsIdx))))

ParseLines(lines) == ParseLabelled(lines, AssetLineIndexes(lines), TagsLineIndexes(lines))

\* <<english, arabic, tags_value>>
parse_metadata(text) == ParseLines(Lines(text))

(***************************************************************************)
(* The Quality Gate on inputs of its own: an arabic_name and a tag string   *)
(* made of a given number of Arabic-only, Latin-only, mixed and digit-only  *)
(* tags, optionally with empty entries between the commas.                  *)
(***************************************************************************)
Str_Seven == <<55>>                                     \* "7"
Str_Mixed == Str_Logo \o <<32>> \o Ar_Shiar              \* Latin and Arabic in one tag

GateNames == {<<>>, <<32>>, Str_Logo, Ar_Shiar, Str_Mixed}

Mix(a, l, b, o, e) == [ar |-> a, lat |-> l, both |-> b, other |-> o, blanks |-> e]

SmallMixes ==
    {Mix(a, l, b, o, e) : a \in 0..MaxGateTags, l \in 0..MaxGateTags,
                          b \in 0..MaxGateTags, o \in 0..1, e \in 0..1}

GateMixes ==
    {m \in SmallMixes : m.ar + m.lat + m.both + m.other <= MaxGateTags}
    \cup {Mix(a, t - a, 0, 0, 0) : a \in {19, 20, 21}, t \in {80, 81, 85}}
    \cup {Mix(0, 0, t, 0, 0) : t \in {80, 81, 85}}

Copies(n, x) == [i \in 1..n |-> x]

\* the tag string of a mix: its tags joined by ", ", empty entries first
TagsOfMix(m) ==
    Join(CommaSpace,
         Copies(m.blanks, <<>>) \o Copies(m.lat, Str_Banner) \o Copies(m.ar, Ar_Mabna)
            \o Copies(m.both, Str_Mixed) \o Copies(m.other, Str_Seven))

DedupIdle ==
    /\ dpc = "idle"
    /\ results = <<>>
    /\ updated = NoList
    /\ again = NoList

InitGate ==
    /\ gpc = "input"
    /\ gname \in GateNames
    /\ gmix \in GateMixes
    /\ gtags = TagsOfMix(gmix)
    /\ gverdict = FALSE
    /\ DedupIdle
    /\ PipeIdle
    /\ CallIdle

\* processors.py: if _needs_rewrite(arabic, tags)
Judge ==
    /\ gpc = "input"
    /\ gverdict' = _needs_rewrite(gname, gtags)
    /\ gpc' = "judged"
    /\ UNCHANGED <<gname, gmix, gtags>>
    /\ UNCHANGED <<dedupVars, pipeVars, callVars>>

NextGate == Judge

SpecGate == InitGate /\ [][NextGate]_vars

(***************************************************************************)
(* Properties of the Quality Gate (SpecGate).                              *)
(***************************************************************************)
\* the name holds a character of the Arabic blocks
HasArabicScript(s) ==
    \E i \in 1..Len(s) :
        \/ s[i] \in \h0600..\h06FF \/ s[i] \in \h0750..\h077F \/ s[i] \in \h08A0..\h08FF
        \/ s[i] \in \hFB50..\hFDFF \/ s[i] \in \hFE70..\hFEFF

MixTotal(m) == m.ar + m.lat + m.both + m.other
MixArabic(m) == m.ar + m.both
MixLatin(m) == m.lat + m.both

\* C9: the gate says "needs correction" whenever the arabic name holds no
\* Arabic character, whatever the tags, and whenever the tag list has no
\* non-empty entry or more than 80 entries, even if every tag is bilingual.
C9_GateNameAndCount ==
    gpc = "judged" =>
        /\ ~HasArabicScript(gname) => gverdict
        /\ (MixTotal(gmix) = 0 \/ MixTotal(gmix) > 80) => gverdict

\* an Arabic name with 85 tags, every one bilingual, was sent back
C9_Witness ==
    /\ gpc = "judged"
    /\ HasArabicScript(gname)
    /\ gmix = Mix(0, 0, 85, 0, 0)
    /\ gverdict

TagCap == 40

\* tag.lower().strip()
TagLower(tag) == Strip(Lower(tag))

\* the positions of tag_list the loop appends to unique_tags: those whose
\* lowered tag is not in `seen` yet
UnseenAt(tag_list) ==
    {i \in 1..Len(tag_list) :
        \A j \in 1..(i - 1) : TagLower(tag_list[j]) /= TagLower(tag_list[i])}

\* the elements of list at the positions idx, in order
AtPositions(list, order) == [k \in 1..Len(order) |-> list[order[k]]]

UniqueTags(tag_list) == AtPositions(tag_list, SortedIn(UnseenAt(tag_list), 1, Len(tag_list)))

\* list[:n]
FirstN(list, n) == SubSeq(list, 1, Min2(Len(list), n))

\* a clean-up that forgets the cap
CleanupTagsUncapped(tags) ==
    IF tags = <<>> THEN tags
    ELSE Join(CommaSpace, UniqueTags(StrippedTags(tags)))

\* the clean-up of _run: drop case-insensitive duplicates, keep the first 40
CleanupTags(tags) ==
    IF tags = <<>> THEN tags
    ELSE Join(CommaSpace, FirstN(UniqueTags(StrippedTags(tags)), TagCap))

\* english, arabic, tags after the first parse_metadata and _normalize_tag_format
NormalizedParse(p) == <<p[1], p[2], _normalize_tag_format(p[3])>>

FirstParse(raw) == NormalizedParse(parse_metadata(raw))

\* a pipeline that asks for the rewrite whatever the gate says
RewriteAlways(arabic, tags) == TRUE

\* processors.py: if _needs_rewrite(arabic, tags)
RewriteTriggered(arabic, tags) == _needs_rewrite(arabic, tags)

\* a merge that keeps the first names where the rewrite has none
MergeParsed(first, r) ==
    IF r[3] /= <<>>
    THEN << (IF r[1] = <<>> THEN first[1] ELSE r[1]),
            (IF r[2] = <<>> THEN first[2] ELSE r[2]),
            _normalize_tag_format(r[3]) >>
    ELSE first

\* english, arabic, tags after the rewrite has been parsed into r
ReplaceParsed(first, r) ==
    IF r[3] /= <<>> THEN <<r[1], r[2], _normalize_tag_format(r[3])>> ELSE first

AfterRewrite(first, answer) == ReplaceParsed(first, parse_metadata(answer))

\* english, arabic, tags after the clean-up of the tags
Cleaned(fields) == <<fields[1], fields[2], CleanupTags(fields[3])>>

\* the AssetResult of the try block, from the cleaned fields
Success(task, fields, raw) ==
    AssetResult(task.task_id, task.display_name, fields[1], fields[2], fields[3], raw)

Str_ErrorPrefix == <<69, 114, 114, 111, 114, 58, 32>>     \* "Error: "

\* an except block that forgets which task it belongs to
FailureAnonymous(task, message) ==
    AssetResult(0, <<>>, <<>>, <<>>, Str_ErrorPrefix \o message, <<>>)

\* the AssetResult of the except block
Failure(task, message) ==
    AssetResult(task.task_id, task.display_name, <<>>, <<>>, Str_ErrorPrefix \o message, <<>>)

\* the tasks of the request; main.py builds one AssetTask per asset
Tasks ==
    [t \in 1..NumTasks |-> [task_id |-> t, display_name |-> <<102, 48 + t>>]]

\* the slot of a task that has not returned yet
NoRecord == AssetResult(0, <<>>, <<>>, <<>>, <<>>, <<>>)

(***************************************************************************)
(* What the model can answer (generate_metadata, rewrite_metadata_text).   *)
(***************************************************************************)
NL == <<10>>
Str_AssetName == <<65, 115, 115, 101, 116, 32, 78, 97, 109, 101, 58, 32>>   \* "Asset Name: "
Str_Tags == <<84, 97, 103, 115, 58, 32>>                                    \* "Tags: "
Str_brand == <<98, 114, 97, 110, 100>>                                      \* "brand"
Ar_Alama == <<\h0639, \h0644, \h0627, \h0645, \h0629>>                       \* "brand" in Arabic
ArabicComma == <<\h060C, 32>>

\* "Asset Name: Logo / <ar>" and "Tags: logo / <ar>, brand / <ar>"
R_Good ==
    Str_AssetName \o SlashPair(Str_Logo, Ar_Shiar) \o NL
        \o Str_Tags \o SlashPair(Str_logo, Ar_Shiar) \o CommaSpace \o SlashPair(Str_brand, Ar_Alama)

\* "Asset Name: Logo" and "Tags: logo, Logo, brand": no Arabic anywhere
R_NoArabic ==
    Str_AssetName \o Str_Logo \o NL
        \o Str_Tags \o Str_logo \o CommaSpace \o Str_Logo \o CommaSpace \o Str_brand

\* an empty answer
R_Empty == <<>>

\* "t1, T1, t2, ..., t<n>": n distinct tags and a case variant of the first
ManyTags(n) ==
    Join(CommaSpace,
         <<<<116, 49>>, <<84, 49>>>> \o [i \in 1..(n - 1) |-> <<116>> \o Digits(i + 1)])

\* "Asset Name: Banner | <ar>" and more Latin tags than the cap allows
R_Many ==
    Str_AssetName \o Str_Banner \o <<32, 124, 32>> \o Ar_Lafita \o NL
        \o Str_Tags \o ManyTags(TagCap + 2)

\* "Tags: logo / <ar>, Logo": tags and no name line
R_TagsOnly ==
    Str_Tags \o SlashPair(Str_logo, Ar_Shiar) \o CommaSpace \o Str_Logo

\* "Asset Name: Logo - 001 | <ar>", "Tags: logo, brand" and the Arabic tags on
\* the next line
R_Split ==
    Str_AssetName \o Str_Logo001 \o <<32, 124, 32>> \o Ar_Shiar \o NL
        \o Str_Tags \o Str_logo \o CommaSpace \o Str_brand \o NL
        \o Ar_Shiar \o ArabicComma \o Ar_Alama

\* "Asset Name: Logo / <ar>" and "Tags: logo, Logo, LOGO, logo, Logo, LOGO, logo, <ar>":
\* bilingual once the repeats are gone, one Arabic tag in eight before
Str_LOGO == <<76, 79, 71, 79>>
R_Repeats ==
    Str_AssetName \o SlashPair(Str_Logo, Ar_Shiar) \o NL
        \o Str_Tags \o Join(CommaSpace, <<Str_logo, Str_Logo, Str_LOGO, Str_logo, Str_Logo,
                                          Str_LOGO, Str_logo, Ar_Shiar>>)

\* what generate_metadata can return
Responses == {R_Good, R_NoArabic, R_Empty, R_Many, R_TagsOnly, R_Split, R_Repeats}

\* what rewrite_metadata_text can return
Rewrites == {R_Good, R_TagsOnly, R_Empty}

(***************************************************************************)
(* _run is a pure function of the two answers: what it computes from them   *)
(* is tabulated once for the answers of the model.                         *)
(***************************************************************************)
\* FirstParse of each first answer
FirstParsed == [a \in Responses |-> FirstParse(a)]

\* whether _run asks for the rewrite of each first answer
AsksRewrite == [a \in Responses |-> RewriteTriggered(FirstParsed[a][2], FirstParsed[a][3])]

\* the cleaned fields _run returns without a rewrite
DirectFields == [a \in Responses |-> Cleaned(FirstParsed[a])]

\* whether the rewrite replaces the parsed tuple: if rewritten_tags
RewriteAccepted == [b \in Rewrites |-> parse_metadata(b)[3] /= <<>>]

\* the cleaned fields _run returns after the rewrite b of the first answer a
RewrittenFields ==
    [a \in Responses |-> [b \in Rewrites |-> Cleaned(AfterRewrite(FirstParsed[a], b))]]

Str_boom == <<98, 111, 111, 109>>                         \* "boom"
ErrorMessages == {Str_boom}

(***************************************************************************)
(* The request as a state machine.                                         *)
(***************************************************************************)
InitPipeline ==
    /\ api_key \in BOOLEAN
    /\ mpc = "start"
    /\ semaphore = 0
    /\ tpc = [t \in 1..NumTasks |-> "pending"]
    /\ rawText = [t \in 1..NumTasks |-> NoText]
    /\ rewrittenText = [t \in 1..NumTasks |-> NoText]
    /\ record = [t \in 1..NumTasks |-> NoRecord]
    /\ rewriteCalls = [t \in 1..NumTasks |-> 0]
    /\ replacements = [t \in 1..NumTasks |-> 0]
    /\ gathered = NoList
    /\ final = NoList
    /\ suffixRuns = 0
    /\ DedupIdle
    /\ GateIdle
    /\ CallIdle

\* process_files calls process_assets, which raises without an API key
\* (HTTP 400) and otherwise creates the semaphore and gathers the coroutines
CallProcessAssets ==
    /\ mpc = "start"
    /\ IF api_key
       THEN mpc' = "gathering" /\ semaphore' = max_concurrency
       ELSE mpc' = "failed" /\ UNCHANGED semaphore
    /\ UNCHANGED <<api_key, gathered, final, suffixRuns>>
    /\ UNCHANGED <<taskVars, dedupVars, gateVars, callVars>>

\* a _run that calls generate_metadata without waiting for a slot
AcquireWithoutSlot(t) ==
    /\ mpc = "gathering"
    /\ tpc[t] = "pending"
    /\ tpc' = [tpc EXCEPT ![t] = "generating"]
    /\ semaphore' = semaphore - 1
    /\ UNCHANGED <<rawText, rewrittenText, record, rewriteCalls, replacements>>
    /\ UNCHANGED <<mainVars, dedupVars, gateVars, callVars>>

\* _run: async with semaphore, then the call of generate_metadata
Acquire(t) ==
    /\ mpc = "gathering"
    /\ tpc[t] = "pending"
    /\ semaphore > 0
    /\ semaphore' = semaphore - 1
    /\ tpc' = [tpc EXCEPT ![t] = "generating"]
    /\ UNCHANGED <<rawText, rewrittenText, record, rewriteCalls, replacements>>
    /\ UNCHANGED <<mainVars, dedupVars, gateVars, callVars>>

\* _run: generate_metadata returns `answer`; the semaphore is released, the
\* answer parsed, normalised and judged, and either the rewrite call is
\* issued or the result returned
GenerateReturns(t, answer) ==
    /\ tpc[t] = "generating"
    /\ semaphore' = semaphore + 1
    /\ rawText' = [rawText EXCEPT ![t] = answer]
    /\ IF AsksRewrite[answer]
       THEN /\ tpc' = [tpc EXCEPT ![t] = "rewriting"]
            /\ rewriteCalls' = [rewriteCalls EXCEPT ![t] = @ + 1]
            /\ UNCHANGED record
       ELSE /\ tpc' = [tpc EXCEPT ![t] = "done"]
            /\ record' = [record EXCEPT ![t] = Success(Tasks[t], DirectFields[answer], answer)]
            /\ UNCHANGED rewriteCalls
    /\ UNCHANGED <<rewrittenText, replacements>>
    /\ UNCHANGED <<mainVars, dedupVars, gateVars, callVars>>

\* _run: generate_metadata raises; the semaphore is released and the except
\* block returns the error record
GenerateRaises(t, message) ==
    /\ tpc[t] = "generating"
    /\ semaphore' = semaphore + 1
    /\ tpc' = [tpc EXCEPT ![t] = "error"]
    /\ record' = [record EXCEPT ![t] = Failure(Tasks[t], message)]
    /\ UNCHANGED <<rawText, rewrittenText, rewriteCalls, replacements>>
    /\ UNCHANGED <<mainVars, dedupVars, gateVars, callVars>>

\* _run: rewrite_metadata_text returns `answer`; it is parsed, accepted or
\* not, the tags cleaned up and the result returned
RewriteReturns(t, answer) ==
    /\ tpc[t] = "rewriting"
    /\ rewrittenText' = [rewrittenText EXCEPT ![t] = answer]
    /\ replacements' = [replacements EXCEPT ![t] = IF RewriteAccepted[answer] THEN @ + 1 ELSE @]
    /\ tpc' = [tpc EXCEPT ![t] = "done"]
    /\ record' = [record EXCEPT ![t] =
                    Success(Tasks[t], RewrittenFields[rawText[t]][answer], rawText[t])]
    /\ UNCHANGED <<semaphore, rawText, rewriteCalls>>
    /\ UNCHANGED <<mainVars, dedupVars, gateVars, callVars>>

\* a _run that falls back on the first answer when the rewrite call raises
RewriteRaisesKeepingParsed(t, message) ==
    /\ tpc[t] = "rewriting"
    /\ tpc' = [tpc EXCEPT ![t] = "error"]
    /\ record' = [record EXCEPT ![t] = Success(Tasks[t], DirectFields[rawText[t]], rawText[t])]
    /\ UNCHANGED <<semaphore, rawText, rewrittenText, rewriteCalls, replacements>>
    /\ UNCHANGED <<mainVars, dedupVars, gateVars, callVars>>

\* _run: rewrite_metadata_text raises; the except block returns the error record
RewriteRaises(t, message) ==
    /\ tpc[t] = "rewriting"
    /\ tpc' = [tpc EXCEPT ![t] = "error"]
    /\ record' = [record EXCEPT ![t] = Failure(Tasks[t], message)]
    /\ UNCHANGED <<semaphore, rawText, rewrittenText, rewriteCalls, replacements>>
    /\ UNCHANGED <<mainVars, dedupVars, gateVars, callVars>>

\* a gather that returns as soon as one coroutine has returned
AnyReturned == \E t \in 1..NumTasks : tpc[t] \in {"done", "error"}

\* asyncio.gather returns once every coroutine has returned
AllReturned == \A t \in 1..NumTasks : tpc[t] \in {"done", "error"}

\* process_assets returns the results in the order of the tasks
GatherReturns ==
    /\ mpc = "gathering"
    /\ AllReturned
    /\ gathered' = [t \in 1..NumTasks |-> record[t]]
    /\ mpc' = "gathered"
    /\ UNCHANGED <<api_key, final, suffixRuns, semaphore>>
    /\ UNCHANGED <<taskVars, dedupVars, gateVars, callVars>>

\* process_files: results = apply_duplicate_suffixes(results), then the
\* spreadsheet and the response
SuffixAndRespond ==
    /\ mpc = "gathered"
    /\ final' = apply_duplicate_suffixes(gathered)
    /\ suffixRuns' = suffixRuns + 1
    /\ mpc' = "responded"
    /\ UNCHANGED <<api_key, gathered, semaphore>>
    /\ UNCHANGED <<taskVars, dedupVars, gateVars, callVars>>

Next ==
    \/ CallProcessAssets
    \/ \E t \in 1..NumTasks : Acquire(t)
    \/ \E t \in 1..NumTasks, answer \in Responses : GenerateReturns(t, answer)
    \/ \E t \in 1..NumTasks, message \in ErrorMessages : GenerateRaises(t, message)
    \/ \E t \in 1..NumTasks, answer \in Rewrites : RewriteReturns(t, answer)
    \/ \E t \in 1..NumTasks, message \in ErrorMessages : RewriteRaises(t, message)
    \/ GatherReturns
    \/ SuffixAndRespond

\* generate_metadata called for task t comes back, with an answer or an exception
GenerateEnds(t) ==
    \/ \E answer \in Responses : GenerateReturns(t, answer)
    \/ \E message \in ErrorMessages : GenerateRaises(t, message)

Spec == InitPipeline /\ [][Next]_vars

(***************************************************************************)
(* Properties of the request (Spec).                                       *)
(***************************************************************************)
Returned(t) == tpc[t] \in {"done", "error"}

\* C5: the suffixing pass runs exactly once per processed batch, and only
\* after every asset has its final record; the records it read are the
\* records the assets ended with.
C5_SuffixOnceAfterAll ==
    /\ suffixRuns <= 1
    /\ mpc = "responded" => suffixRuns = 1
    /\ mpc \in {"start", "gathering", "gathered", "failed"} => suffixRuns = 0
    /\ mpc \in {"gathered", "responded"} =>
           /\ \A t \in 1..NumTasks : Returned(t)
           /\ gathered = [t \in 1..NumTasks |-> record[t]]
    /\ suffixRuns = 1 => final = apply_duplicate_suffixes([t \in 1..NumTasks |-> record[t]])

\* the response is out; one asset failed and another was rewritten
C5_Witness ==
    /\ mpc = "responded"
    /\ suffixRuns = 1
    /\ \E t \in 1..NumTasks : tpc[t] = "error"
    /\ \E t \in 1..NumTasks : tpc[t] = "done" /\ replacements[t] = 1

\* parse_metadata of the answers of the model, computed once
ParsedAnswer == [a \in Responses \cup Rewrites |-> parse_metadata(a)]

\* the tags of each answer after the Tag Normalizer
NormalizedTags == [a \in Responses \cup Rewrites |-> _normalize_tag_format(ParsedAnswer[a][3])]

\* the verdict of the Quality Gate on the first parse of each answer
GateVerdict == [a \in Responses |-> _needs_rewrite(ParsedAnswer[a][2], NormalizedTags[a])]

\* C6: per asset at most one rewrite call is issued and at most one
\* replacement accepted, and a rewrite is issued only when the gate's verdict
\* on the first parse is "needs correction".
C6_AtMostOneRewrite ==
    \A t \in DOMAIN tpc :
        /\ rewriteCalls[t] <= 1
        /\ replacements[t] <= rewriteCalls[t]
        /\ rewriteCalls[t] = 1 => GateVerdict[rawText[t]]
        /\ tpc[t] = "rewriting" => rewriteCalls[t] = 1
        /\ (tpc[t] = "done" /\ rewriteCalls[t] = 0) => ~GateVerdict[rawText[t]]

\* an asset whose accepted rewrite still fails the gate, and is final
C6_Witness ==
    \E t \in DOMAIN tpc :
        /\ tpc[t] = "done"
        /\ rewriteCalls[t] = 1
        /\ replacements[t] = 1
        /\ GateVerdict[rewrittenText[t]]
        /\ _needs_rewrite(record[t].arabic_name, record[t].tags)

\* the entries of a comma-separated tag string
Entries(tags) ==
    LET raw == SplitChar(tags, 44)
    IN  SelectSeq([i \in 1..Len(raw) |-> Strip(raw[i])], LAMBDA e : e /= <<>>)

\* the merged and expanded tag list of each answer
SourceEntries == [a \in Responses \cup Rewrites |-> Entries(NormalizedTags[a])]

\* the positions of the first occurrences in src, compared case-insensitively
FirstOccurrences(src) ==
    {i \in 1..Len(src) : \A j \in 1..(i - 1) : Lower(src[j]) /= Lower(src[i])}

\* the first occurrences of src in order, at most 40 of them
FirstForty(src) ==
    LET firsts == FirstOccurrences(src)
        n == IF Cardinality(firsts) <= 40 THEN Cardinality(firsts) ELSE 40
    IN  [k \in 1..n |-> src[CHOOSE i \in firsts : Cardinality({j \in firsts : j <= i}) = k]]

\* what the claims expect as the final tag entries of each answer
ExpectedEntries == [a \in Responses \cup Rewrites |-> FirstForty(SourceEntries[a])]

\* the answer the final fields of task t come from under wholesale replacement
SourceAnswer(t) ==
    IF rewriteCalls[t] = 1 /\ ParsedAnswer[rewrittenText[t]][3] /= <<>>
    THEN rewrittenText[t] ELSE rawText[t]

\* C7: once a rewrite is obtained and parsed, the names and the tags of the
\* asset all come from the re-parse if its tag string is non-empty, and all
\* stay those of the first parse if it is empty.
C7_WholesaleReplacement ==
    \A t \in DOMAIN tpc :
        (tpc[t] = "done" /\ rewriteCalls[t] = 1) =>
            LET replaced == ParsedAnswer[rewrittenText[t]][3] /= <<>>
                from == IF replaced THEN rewrittenText[t] ELSE rawText[t]
            IN  /\ record[t].english_name = ParsedAnswer[from][1]
                /\ record[t].arabic_name = ParsedAnswer[from][2]
                /\ Entries(record[t].tags) = ExpectedEntries[from]
                /\ replacements[t] = (IF replaced THEN 1 ELSE 0)

\* a rewrite with tags and no names has replaced a first parse that had a name
C7_Witness ==
    \E t \in DOMAIN tpc :
        /\ tpc[t] = "done"
        /\ rewriteCalls[t] = 1
        /\ ParsedAnswer[rawText[t]][1] /= <<>>
        /\ ParsedAnswer[rewrittenText[t]][3] /= <<>>
        /\ ParsedAnswer[rewrittenText[t]][1] = <<>>
        /\ record[t].english_name = <<>>

\* C8: the final tags of an asset whose pipeline completed hold at most 40
\* entries, no two equal case-insensitively, in the order of their first
\* occurrence in the merged and expanded tag list.
C8_TagsUniqueAndCapped ==
    \A t \in DOMAIN tpc :
        tpc[t] = "done" =>
            LET entries == Entries(record[t].tags)
            IN  /\ Len(entries) <= 40
                /\ \A a, b \in 1..Len(entries) : a /= b => Lower(entries[a]) /= Lower(entries[b])
                /\ entries = ExpectedEntries[SourceAnswer(t)]
                /\ record[t].tags = Join(CommaSpace, entries)

\* an asset that ends with 40 tags out of more, a case variant among the dropped
C8_Witness ==
    \E t \in DOMAIN tpc :
        /\ tpc[t] = "done"
        /\ Len(Entries(record[t].tags)) = 40
        /\ Cardinality(FirstOccurrences(SourceEntries[SourceAnswer(t)])) > 40
        /\ Len(SourceEntries[SourceAnswer(t)])
              > Cardinality(FirstOccurrences(SourceEntries[SourceAnswer(t)]))

\* the tags of each answer, expanded, with the case-insensitive repeats removed
DeduplicatedTags ==
    [a \in Responses |->
        Join(CommaSpace,
             [k \in 1..Len(SortedIn(FirstOccurrences(SourceEntries[a]), 1, Len(SourceEntries[a]))) |->
                 SourceEntries[a][SortedIn(FirstOccurrences(SourceEntries[a]), 1, Len(SourceEntries[a]))[k]]])]

\* the verdict of the Quality Gate on the deduplicated tags of each answer
DeduplicatedVerdict ==
    [a \in Responses |-> _needs_rewrite(ParsedAnswer[a][2], DeduplicatedTags[a])]

\* C21: the Quality Gate scores the tag string after the slash pairs are
\* expanded and the case-insensitive duplicates removed: an asset is sent to
\* the rewrite exactly when the gate fails its deduplicated tag list.
C21_GateOnDeduplicated ==
    \A t \in DOMAIN tpc :
        tpc[t] \in {"rewriting", "done"} =>
            (rewriteCalls[t] = 1 <=> DeduplicatedVerdict[rawText[t]])

\* C27: process_assets returns exactly one record per submitted task, and
\* record i carries the task id and the display label of task i, whatever the
\* order in which the pipelines of the assets ran and completed and whether
\* or not some of them failed; the suffixing pass keeps both.
C27_OneRecordPerTaskInOrder ==
    /\ mpc \in {"gathered", "responded"} =>
           /\ DOMAIN gathered = 1..NumTasks
           /\ \A i \in 1..NumTasks :
                  /\ gathered[i].task_id = Tasks[i].task_id
                  /\ gathered[i].display_name = Tasks[i].display_name
    /\ mpc = "responded" =>
           /\ DOMAIN final = 1..NumTasks
           /\ \A i \in 1..NumTasks :
                  /\ final[i].task_id = Tasks[i].task_id
                  /\ final[i].display_name = Tasks[i].display_name

\* process_assets has returned; the first task failed, a later one succeeded
\* after the rewrite, and each record sits at the place of its task
C27_Witness ==
    /\ mpc = "gathered"
    /\ tpc[1] = "error"
    /\ \E t \in 2..NumTasks : tpc[t] = "done" /\ rewriteCalls[t] = 1
    /\ \A i \in 1..NumTasks : gathered[i].task_id = i

\* the error record of task t for the exception message m
ErrorRecord(t, m) ==
    [task_id |-> Tasks[t].task_id, display_name |-> Tasks[t].display_name,
     english_name |-> <<>>, arabic_name |-> <<>>,
     tags |-> <<69, 114, 114, 111, 114, 58, 32>> \o m, raw_text |-> <<>>]

\* the record a task that did not fail ends with: a function of its own
\* answers only
OwnRecord(t) ==
    Success(Tasks[t],
            IF rewriteCalls[t] = 1 THEN RewrittenFields[rawText[t]][rewrittenText[t]]
            ELSE DirectFields[rawText[t]],
            rawText[t])

\* the tasks that did not fail, in the order of the batch
SucceededTasks == SelectSeq([t \in 1..NumTasks |-> t], LAMBDA t : tpc[t] = "done")

\* C28: when a step of the pipeline of an asset raises (the first model
\* call or the rewrite call) the record of the asset is the error record:
\* empty names, tags "Error: <message>", empty raw text, so the fields parsed
\* from the first answer are dropped when the rewrite fails; the records of
\* the other assets are what their own answers make them, the error records
\* get no suffix, and the other records get the suffixes they would get in a
\* batch without the failed assets.
C28_ErrorRecordAndOthersUnaffected ==
    /\ \A t \in 1..NumTasks :
           /\ tpc[t] = "error" => \E m \in ErrorMessages : record[t] = ErrorRecord(t, m)
           /\ tpc[t] = "done" => record[t] = OwnRecord(t)
    /\ mpc = "responded" =>
           /\ \A t \in 1..NumTasks : tpc[t] = "error" => final[t] = record[t]
           /\ \A k \in 1..Len(SucceededTasks) :
                  final[SucceededTasks[k]] =
                      apply_duplicate_suffixes(
                          [j \in 1..Len(SucceededTasks) |-> record[SucceededTasks[j]]])[k]

\* the response is out; one asset failed at the rewrite call, after its first
\* answer had been parsed, and another asset came through
C28_Witness ==
    /\ mpc = "responded"
    /\ \E t \in 1..NumTasks :
           /\ tpc[t] = "error"
           /\ rewriteCalls[t] = 1
           /\ rawText[t] = R_NoArabic
           /\ final[t] = ErrorRecord(t, Str_boom)
    /\ \E u \in 1..NumTasks : tpc[u] = "done" /\ final[u].english_name = Str_Logo

\* the response is out and every asset failed: the empty names of the error
\* records are not counted as duplicates of each other
C28_WitnessAllFailed ==
    /\ mpc = "responded"
    /\ \A t \in 1..NumTasks : tpc[t] = "error" /\ final[t].english_name = <<>>

\* the request with the scheduling of the event loop: a coroutine waiting for
\* a free slot gets it, and every first model call comes back
SpecLive ==
    /\ InitPipeline
    /\ [][Next]_vars
    /\ \A t \in 1..NumTasks : WF_vars(Acquire(t)) /\ WF_vars(GenerateEnds(t))

InFlight == {t \in 1..NumTasks : tpc[t] = "generating"}

\* the slots in use are those of the first model calls in flight
SlotsMatchCalls ==
    /\ Cardinality(InFlight) <= max_concurrency
    /\ mpc \in {"start", "failed"} => InFlight = {}
    /\ mpc \in {"gathering", "gathered", "responded"} =>
           semaphore = max_concurrency - Cardinality(InFlight)

\* C29: at most max_concurrency first model calls are in flight at any time;
\* the slot is given back when the call returns or raises, so an asset that
\* is parsed, waits for its rewrite or has returned holds no slot; and every
\* asset waiting for a slot eventually gets one, provided every first model
\* call comes back, even if a rewrite call never does.
C29_BoundedCallsAndProgress ==
    /\ []SlotsMatchCalls
    /\ \A t \in 1..NumTasks : (mpc = "gathering" /\ tpc[t] = "pending") ~> (tpc[t] /= "pending")

\* every slot is taken by a first model call while another asset waits for
\* its rewrite without holding one
C29_Witness ==
    /\ mpc = "gathering"
    /\ semaphore = 0
    /\ Cardinality(InFlight) = max_concurrency
    /\ \E t \in 1..NumTasks : tpc[t] = "rewriting"

(***************************************************************************)
(* _normalize_tag_format called on a tag string of its own, and again on    *)
(* its own output.                                                         *)
(***************************************************************************)
Str_building == <<98, 117, 105, 108, 100, 105, 110, 103>>                  \* "building"
Tok_BuildingSlash == Str_building \o <<47>> \o Ar_Mabna                    \* "building/<arabic>"
Tok_ThreeParts == <<97, 47, 98, 47, 99>>                                   \* "a/b/c"
Tok_SlashFirst == <<47, 97, 47, 98>>                                       \* "/a/b"
Tok_SlashLast == <<108, 111, 103, 111, 47>>                                \* "logo/"
Tok_Spaced == <<32>> \o Str_logo \o <<32, 47, 32>> \o Ar_Shiar \o <<32>>   \* " logo / <arabic> "

\* the raw tags a tag string is made of, "" and a blank one included
TokenPool ==
    { Str_building, Ar_Mabna, Tok_BuildingSlash, Tok_ThreeParts, Tok_SlashFirst,
      Tok_SlashLast, Tok_Spaced, <<>>, <<32>> }

\* the tag strings of at most n raw tags
TagStrings(n) ==
    UNION { { Join(<<44>>, f) : f \in [1..k -> TokenPool] } : k \in 0..n }

InitNormalizer ==
    /\ cpc = "input"
    /\ args \in TagStrings(MaxTokens)
    /\ ret = NoText
    /\ ret2 = NoText
    /\ DedupIdle
    /\ GateIdle
    /\ PipeIdle

\* processors.py: tags = _normalize_tag_format(tags)
NormalizeTags ==
    /\ cpc = "input"
    /\ ret' = _normalize_tag_format(args)
    /\ cpc' = "returned"
    /\ UNCHANGED <<args, ret2>>
    /\ UNCHANGED <<dedupVars, gateVars, pipeVars>>

\* _normalize_tag_format applied to its own output
NormalizeAgain ==
    /\ cpc = "returned"
    /\ ret2' = _normalize_tag_format(ret)
    /\ cpc' = "reapplied"
    /\ UNCHANGED <<args, ret>>
    /\ UNCHANGED <<dedupVars, gateVars, pipeVars>>

NextNormalizer == NormalizeTags \/ NormalizeAgain

SpecNormalizer == InitNormalizer /\ [][NextNormalizer]_vars

(***************************************************************************)
(* Properties of the Tag Normalizer (SpecNormalizer).                      *)
(***************************************************************************)
\* C11: normalizing the normalizer's output again returns that output
\* unchanged: normalize(normalize(t)) = normalize(t).
C11_NormalizerIdempotent == cpc = "reapplied" => ret2 = ret

\* the comma-separated tokens of a tag string, trimmed, the blank ones dropped
TokensOf(tags) ==
    LET raw == SplitChar(tags, 44)
    IN  SelectSeq([i \in 1..Len(raw) |-> Strip(raw[i])], LAMBDA t : t /= <<>>)

\* the positions of the "/" of a token that have content on both sides
SlashesWithBothSides(tok) ==
    { i \in 1..Len(tok) : /\ tok[i] = 47
                          /\ Strip(SubSeq(tok, 1, i - 1)) /= <<>>
                          /\ Strip(SubSeq(tok, i + 1, Len(tok))) /= <<>> }

\* the token cut at position i into its trimmed left and right parts
CutAt(tok, i) == << Strip(SubSeq(tok, 1, i - 1)), Strip(SubSeq(tok, i + 1, Len(tok))) >>

\* what the claim has a token become: split at its first "/" or kept whole
EmittedForFirstSlash(tok) ==
    LET slashes == {i \in 1..Len(tok) : tok[i] = 47}
    IN  IF slashes /= {} /\ SetMin(slashes) \in SlashesWithBothSides(tok)
        THEN CutAt(tok, SetMin(slashes))
        ELSE <<tok>>

\* C12: a token that contains a "/" with non-empty content on both sides is
\* emitted as two tokens, the left part then the right part, in place of the
\* combined token; a token with no "/" or with an empty side is kept as one
\* token; the order of the tokens is kept.  The sides are those of the first
\* "/" of the token, trimmed.
C12_SplitAtFirstSlash ==
    cpc \in {"returned", "reapplied"} =>
        LET toks == TokensOf(args)
        IN  ret = Join(CommaSpace, Concat([k \in 1..Len(toks) |-> EmittedForFirstSlash(toks[k])]))

\* "building/<arabic>" became two tokens, ahead of a token kept whole
C12_Witness ==
    /\ cpc = "returned"
    /\ args = Join(<<44>>, <<Tok_BuildingSlash, Tok_SlashLast>>)
    /\ ret = Join(CommaSpace, <<Str_building, Ar_Mabna, Tok_SlashLast>>)

(***************************************************************************)
(* parse_metadata called on a text of its own: up to MaxLines lines, with   *)
(* and without labels, in any order.                                       *)
(***************************************************************************)
Str_AssetNameLabel == <<65, 115, 115, 101, 116, 32, 78, 97, 109, 101, 58, 32>>   \* "Asset Name: "
Str_TagsLabel == <<84, 97, 103, 115, 58, 32>>                                    \* "Tags: "
Str_Brand == <<66, 114, 97, 110, 100>>                                            \* "Brand"
Line_Logo == Str_AssetNameLabel \o Str_Logo
Line_BannerBoth == Lower(Str_AssetNameLabel) \o Str_Banner \o <<32, 47, 32>> \o Ar_Lafita
Line_Arabic == Str_AssetNameLabel \o Ar_Shiar
Line_Pipe == Str_AssetNameLabel \o Str_Logo \o <<32, 124, 32>> \o Str_Brand      \* "... Logo | Brand"
Line_Tags == Str_TagsLabel \o Str_logo \o CommaSpace \o Ar_Shiar
Line_TagsUpper == <<84, 65, 71, 83, 58>> \o Str_building                         \* "TAGS:building"
Line_ArabicTags == Ar_Mabna \o <<\h060C, 32>> \o Ar_Lafita
Line_Note == <<78, 111, 116, 101, 58, 32, 100, 114, 97, 102, 116>>               \* "Note: draft"
Line_LatinTags == Str_building \o CommaSpace \o Str_Brand                         \* "building, Brand"
Line_ArabicWord == Ar_Lafita

LinePool ==
    { Line_Logo, Line_BannerBoth, Line_Arabic, Line_Pipe, Line_Tags, Line_TagsUpper,
      Line_ArabicTags, Line_Note, Line_LatinTags, Line_ArabicWord }

\* the texts of at most n lines
Texts(n) == UNION { { Join(<<10>>, f) : f \in [1..k -> LinePool] } : k \in 0..n }

InitParse ==
    /\ cpc = "input"
    /\ args \in Texts(MaxLines)
    /\ ret = NoText
    /\ ret2 = NoText
    /\ DedupIdle
    /\ GateIdle
    /\ PipeIdle

\* processors.py: english, arabic, tags = parse_metadata(text)
Parse ==
    /\ cpc = "input"
    /\ ret' = parse_metadata(args)
    /\ cpc' = "returned"
    /\ UNCHANGED <<args, ret2>>
    /\ UNCHANGED <<dedupVars, gateVars, pipeVars>>

NextParse == Parse

SpecParse == InitParse /\ [][NextParse]_vars

(***************************************************************************)
(* Properties of parse_metadata (SpecParse).                               *)
(***************************************************************************)
Str_x == <<120>>

\* the lines of a text with the value of every labelled line but the last of
\* its label replaced by "x"
EarlierValuesMasked(lines) ==
    [i \in 1..Len(lines) |->
        IF i \in AssetLineIndexes(lines) /\ i /= SetMax(AssetLineIndexes(lines))
        THEN Str_AssetNameLabel \o Str_x
        ELSE IF i \in TagsLineIndexes(lines) /\ i /= SetMax(TagsLineIndexes(lines))
        THEN Str_TagsLabel \o Str_x
        ELSE lines[i]]

\* C13: the name comes from the last "asset name:" line, the tags and the
\* continuation scan from the last "tags:" line, and earlier labelled lines
\* never contribute to the result: the result does not depend on their values.
C13_LastLabelWins ==
    cpc = "returned" =>
        ret = parse_metadata(Join(<<10>>, EarlierValuesMasked(Lines(args))))

\* C14: parse_metadata returns three strings for every text; without an
\* "asset name:" line both names are empty, without a "tags:" line the tags
\* are empty.
C14_ParseTotal ==
    /\ cpc = "input" => Len(parse_metadata(args)) = 3
    /\ cpc = "returned" =>
        /\ Len(ret) = 3
        /\ \A k \in 1..3 : ret[k] \in Seq(Nat)
        /\ AssetLineIndexes(Lines(args)) = {} => (ret[1] = <<>> /\ ret[2] = <<>>)
        /\ TagsLineIndexes(Lines(args)) = {} => ret[3] = <<>>

\* a text of unlabelled lines, one with a colon and one of Arabic tags, gave
\* three empty strings
C14_Witness ==
    /\ cpc = "returned"
    /\ args = Join(<<10>>, <<Line_Note, Line_ArabicTags>>)
    /\ ret = <<<<>>, <<>>, <<>>>>

\* the name value parse_metadata extracts and hands to _split_bilingual_name
NameValue(text) ==
    LET lines == Lines(text)
        idx == AssetLineIndexes(lines)
    IN  RecoverName(lines, ValueAfterColon(LastLine(lines, idx)),
                    IF idx = {} THEN 0 ELSE SetMin(idx))

\* C16: when the extracted name value holds no Arabic character, the parsed
\* arabic_name is the empty string.
C16_NoArabicNoArabicName ==
    cpc = "returned" =>
        (~HasArabicScript(NameValue(args)) => ret[2] = <<>>)

\* C23: when the value of the last "asset name:" line holds no Arabic
\* character, the only line that can be appended to it, with " / ", is the
\* line directly after that last "asset name:" line, when it has Arabic
\* script and does not start with "tags:"; the names are split from that.
C23_RecoveryAfterLastNameLine ==
    cpc = "returned" =>
        LET lines == Lines(args)
            idx == AssetLineIndexes(lines)
            names == _split_bilingual_name(
                         RecoverName(lines, ValueAfterColon(LastLine(lines, idx)),
                                     IF idx = {} THEN 0 ELSE SetMax(idx)))
        IN  ret[1] = names[1] /\ ret[2] = names[2]

\* a line that looks like tag content: no label at its start, and a Latin or
\* Arabic comma in it or Arabic script without any Latin letter
LooksLikeTags(line) ==
    /\ ~StartsWith(Lower(line), Label_AssetName)
    /\ ~StartsWith(Lower(line), Label_Tags)
    /\ \/ \E i \in 1..Len(line) : line[i] \in {44, \h060C}
       \/ /\ HasArabicScript(line)
          /\ \A i \in 1..Len(line) : line[i] \notin (65..90) \cup (97..122)

\* the length of the longest run of lines directly after line t that all look
\* like tag content
LongestRun(lines, t) ==
    SetMax({k \in 0..(Len(lines) - t) : \A j \in 1..k : LooksLikeTags(lines[t + j])})

\* C24: the lines absorbed into the tags are exactly the longest run of lines
\* directly after the last "tags:" line that all look like tag content;
\* absorption stops at the first other line and no later line is absorbed.
C24_LongestRunAbsorbed ==
    cpc = "returned" =>
        LET lines == Lines(args)
            idx == TagsLineIndexes(lines)
            t == SetMax(idx)
        IN  idx /= {} =>
                ret[3] = _merge_tag_lines(ValueAfterColon(lines[t]),
                                          SubSeq(lines, t + 1, t + LongestRun(lines, t)))

\* the Arabic line after the tags line was absorbed and the scan stopped at
\* the note after it
C24_Witness ==
    /\ cpc = "returned"
    /\ args = Join(<<10>>, <<Line_Tags, Line_ArabicTags, Line_Note>>)
    /\ ret[3] = _merge_tag_lines(Str_logo \o CommaSpace \o Ar_Shiar, <<Line_ArabicTags>>)
    /\ ret[3] /= Str_logo \o CommaSpace \o Ar_Shiar

\* the scan stopped at the note and the Arabic line after it was left out
C24_WitnessStops ==
    /\ cpc = "returned"
    /\ args = Join(<<10>>, <<Line_Tags, Line_Note, Line_ArabicTags>>)
    /\ ret[3] = Str_logo \o CommaSpace \o Ar_Shiar

(***************************************************************************)
(* parse_metadata called on a text whose name line is                      *)
(* "Asset Name: X / Y", X with Latin letters and no Arabic, Y with Arabic   *)
(* and no Latin letters.                                                   *)
(***************************************************************************)
Str_BigLogo == <<66, 105, 103, 32>> \o Str_Logo                         \* "Big Logo"
Str_PipeInside == <<65, 124, 66>>                                       \* "A|B"
Str_LogoDashOld == Str_Logo \o <<32, 45, 32, 79, 108, 100>>             \* "Logo - Old"
Str_LogoColon == Str_Logo \o <<58>>                                     \* "Logo:"
Str_LogoTwo == Str_Logo \o <<32, 50>>                                   \* "Logo 2"

\* the X of the name line
LatinNames ==
    { Str_Logo, Str_LogoWs, Str_BigLogo, Str_BigLogoWide, Str_PipeInside,
      Str_LogoDashOld, Str_LogoColon, Str_LogoTwo }

\* the Y of the name line
OnlyArabicNames ==
    { Ar_Shiar, Ar_Shiar \o <<32>>, Ar_Shiar \o <<32>> \o Ar_Lafita,
      <<45>> \o Ar_Shiar, Ar_Shiar \o <<32, 47, 32>> \o Ar_Lafita }

\* the lines before and after the name line
LinesBefore == { <<>>, Line_Note \o <<10>> }
LinesAfter == { <<>>, <<10>> \o Line_Tags }

NameLineInputs ==
    { [before |-> b, X |-> x, Y |-> y, after |-> a] :
        b \in LinesBefore, x \in LatinNames, y \in OnlyArabicNames, a \in LinesAfter }

\* the text: ... "Asset Name: X / Y" ...
NameLineText(in) ==
    in.before \o Str_AssetNameLabel \o in.X \o <<32, 47, 32>> \o in.Y \o in.after

InitNameLine ==
    /\ cpc = "input"
    /\ args \in NameLineInputs
    /\ ret = NoText
    /\ ret2 = NoText
    /\ DedupIdle
    /\ GateIdle
    /\ PipeIdle

\* processors.py: english, arabic, tags = parse_metadata(text)
ParseNameLine ==
    /\ cpc = "input"
    /\ ret' = parse_metadata(NameLineText(args))
    /\ cpc' = "returned"
    /\ UNCHANGED <<args, ret2>>
    /\ UNCHANGED <<dedupVars, gateVars, pipeVars>>

NextNameLine == ParseNameLine

SpecNameLine == InitNameLine /\ [][NextNameLine]_vars

(***************************************************************************)
(* Properties of the name splitting (SpecNameLine).                        *)
(***************************************************************************)
HasLatinLetter(s) == \E i \in 1..Len(s) : s[i] \in 65..90 \/ s[i] \in 97..122

LatinWithoutArabic(s) == HasLatinLetter(s) /\ ~HasArabicScript(s)
ArabicWithoutLatin(s) == HasArabicScript(s) /\ ~HasLatinLetter(s)

PlainName(s) ==
    LET t == Strip(s)
    IN  \A i \in 1..Len(t) :
            \/ Category(t[i]) \in LetterOrNumber
            \/ (t[i] = 32 /\ t[i - 1] /= 32)

Str_architecture == <<97, 114, 99, 104, 105, 116, 101, 99, 116, 117, 114, 101>>   \* "architecture"
Str_modern == <<109, 111, 100, 101, 114, 110>>                                    \* "modern"
Str_urban == <<117, 114, 98, 97, 110>>                                            \* "urban"
Ar_Imara == <<\h0639, \h0645, \h0627, \h0631, \h0629>>                            \* "architecture"
Ar_Hadith == <<\h062D, \h062F, \h064A, \h062B>>                                   \* "modern"
Ar_Hadari == <<\h062D, \h0636, \h0631, \h064A>>                                   \* "urban"

LatinWords == <<Str_building, Str_architecture, Str_modern, Str_urban>>
ArabicWords == <<Ar_Mabna, Ar_Imara, Ar_Hadith, Ar_Hadari>>

\* the i-th tag of a side, Latin or Arabic
WordAt(i, kind) ==
    IF kind = "latin" THEN LatinWords[((i - 1) % Len(LatinWords)) + 1]
    ELSE ArabicWords[((i - 1) % Len(ArabicWords)) + 1]

\* the sides: for each of up to n tags, whether it is Latin or Arabic
Sides(n) == UNION { [1..k -> {"latin", "arabic"}] : k \in 0..n }

WordsOf(side) == [i \in 1..Len(side) |-> WordAt(i, side[i])]

ArabicCommaSpace == <<\h060C, 32>>

\* the continuation lines of a side: none, one line, or the first tag on a
\* line of its own and the others on the next, joined by the Arabic comma
ContinuationOf(side, two) ==
    IF side = <<>> THEN <<>>
    ELSE IF two /\ Len(side) >= 2
         THEN << WordsOf(side)[1], Join(ArabicCommaSpace, Tail(WordsOf(side))) >>
    ELSE << Join(ArabicCommaSpace, WordsOf(side)) >>

MergeInputs ==
    { [primary_line |-> Join(CommaSpace, WordsOf(p)), continuation_lines |-> ContinuationOf(c, two)] :
        p \in Sides(MaxMergeTags), c \in Sides(MaxMergeTags), two \in BOOLEAN }

InitMerge ==
    /\ cpc = "input"
    /\ args \in MergeInputs
    /\ ret = NoText
    /\ ret2 = NoText
    /\ DedupIdle
    /\ GateIdle
    /\ PipeIdle

\* parsing.py: tags_value = _merge_tag_lines(tags_value, continuation_lines)
MergeLines ==
    /\ cpc = "input"
    /\ ret' = _merge_tag_lines(args.primary_line, args.continuation_lines)
    /\ cpc' = "returned"
    /\ UNCHANGED <<args, ret2>>
    /\ UNCHANGED <<dedupVars, gateVars, pipeVars>>

NextMerge == MergeLines

SpecMerge == InitMerge /\ [][NextMerge]_vars

(***************************************************************************)
(* Properties of the Tag Line Merger (SpecMerge).                          *)
(***************************************************************************)
\* the tokens of a line: split at "," and the Arabic comma, trimmed, no blanks
CommaTokens(line) ==
    LET raw == PiecesAt(line, {i \in 1..Len(line) : line[i] \in {44, \h060C}})
    IN  SelectSeq([i \in 1..Len(raw) |-> Strip(raw[i])], LAMBDA t : t /= <<>>)

PrimaryTokens == CommaTokens(args.primary_line)

ContinuationTokens ==
    Concat([k \in 1..Len(args.continuation_lines) |-> CommaTokens(args.continuation_lines[k])])

\* the pairing heuristic fires: both sides have tokens, at least half of the
\* primary tokens (and at least one) are Latin without Arabic, at least half
\* of the continuation tokens (and at least one) are Arabic without Latin
PairingFires(primary, continuation) ==
    /\ primary /= <<>>
    /\ continuation /= <<>>
    /\ LET latin == Cardinality({i \in 1..Len(primary) : LatinWithoutArabic(primary[i])})
       IN  latin >= 1 /\ 2 * latin + 1 >= Len(primary)
    /\ LET arabic == Cardinality({i \in 1..Len(continuation) : ArabicWithoutLatin(continuation[i])})
       IN  arabic >= 1 /\ 2 * arabic + 1 >= Len(continuation)

\* positional pairs up to the shorter list, then the leftovers of the longer
PairedThenLeftovers(primary, continuation) ==
    [i \in 1..(IF Len(primary) >= Len(continuation) THEN Len(primary) ELSE Len(continuation)) |->
        IF i <= Len(primary) /\ i <= Len(continuation)
        THEN primary[i] \o <<32, 47, 32>> \o continuation[i]
        ELSE IF i <= Len(primary) THEN primary[i] ELSE continuation[i]]

\* C17: when the pairing heuristic fires the result is the positional pairs
\* "primary[i] / continuation[i]" up to the length of the shorter list, then
\* the leftover tokens of the longer list in order, joined by ", "; every
\* token of either side appears exactly once.
C17_PairsThenLeftovers ==
    cpc = "returned" =>
        (PairingFires(PrimaryTokens, ContinuationTokens) =>
            ret = Join(CommaSpace, PairedThenLeftovers(PrimaryTokens, ContinuationTokens)))

\* [building, architecture, modern] and one line of three Arabic tags gave
\* exactly the three positional pairs
C17_Witness ==
    /\ cpc = "returned"
    /\ args.primary_line = Join(CommaSpace, <<Str_building, Str_architecture, Str_modern>>)
    /\ args.continuation_lines = << Join(ArabicCommaSpace, <<Ar_Mabna, Ar_Imara, Ar_Hadith>>) >>
    /\ ret = Join(CommaSpace, << Str_building \o <<32, 47, 32>> \o Ar_Mabna,
                                 Str_architecture \o <<32, 47, 32>> \o Ar_Imara,
                                 Str_modern \o <<32, 47, 32>> \o Ar_Hadith >>)

\* the heuristic fired on sides of different lengths: leftovers follow the pairs
C17_WitnessLeftovers ==
    /\ cpc = "returned"
    /\ PairingFires(PrimaryTokens, ContinuationTokens)
    /\ Len(PrimaryTokens) = 3
    /\ Len(ContinuationTokens) = 1
    /\ Len(CommaTokens(ret)) = 3

(***************************************************************************)
(* _normalize_key called on two names of its own, as _apply_suffixes does   *)
(* for two entries of a list.                                              *)
(***************************************************************************)
Str_Building == <<66>> \o Tail(Str_building)                                     \* "Building"
Str_CafeAccentDash == <<67, 97, 102, \h00E9, 32, \h2014, 32>> \o Str_Building    \* "Caf(e-acute) (em dash) Building"
Str_cafe_building == <<99, 97, 102, 101, 32>> \o Str_building                    \* "cafe building"
Str_CAFE_BUILDING == <<67, 65, 70, 69, 32, 66, 85, 73, 76, 68, 73, 78, 71>>      \* "CAFE BUILDING"
Str_cafe_hyphen == <<99, 97, 102, 101, 45>> \o Str_building                      \* "cafe-building"
Str_CafeCombining == <<67, 97, 102, 101, \h0301, 32>> \o Str_Building            \* "Cafe" + combining acute
Str_LogoBang == Str_logo \o <<33>>                                               \* "logo!"
Ar_MabnaFarsiYeh == <<\h0645, \h0628, \h0646, \h06CC>>                           \* "building", Farsi yeh
Ar_MabnaFatha == <<\h0645, \h064E>> \o Tail(Ar_Mabna)                            \* "building" with a fatha on its first letter
Str_LogoZeroWidth == <<76, 111, \h200B, 103, 111>>                                \* "Lo" + zero width space + "go"

KeyNames ==
    { Str_CafeAccentDash, Str_cafe_building, Str_CAFE_BUILDING, Str_cafe_hyphen,
      Str_CafeCombining, Str_Logo, Str_LogoBang, Str_Banner,
      Ar_Mabna, Ar_MabnaYeh, Ar_MabnaFarsiYeh, Ar_MabnaFatha, Str_LogoZeroWidth, <<>> }

InitKey ==
    /\ cpc = "input"
    /\ args \in KeyNames \X KeyNames
    /\ ret = NoText
    /\ ret2 = NoText
    /\ DedupIdle
    /\ GateIdle
    /\ PipeIdle

\* dedup.py: key = _normalize_key(base), for two entries of the list
ComputeKeys ==
    /\ cpc = "input"
    /\ ret' = <<_normalize_key(args[1]), _normalize_key(args[2])>>
    /\ cpc' = "returned"
    /\ UNCHANGED <<args, ret2>>
    /\ UNCHANGED <<dedupVars, gateVars, pipeVars>>

NextKey == ComputeKeys

SpecKey == InitKey /\ [][NextKey]_vars

(***************************************************************************)
(* Properties of the canonical key (SpecKey).                              *)
(***************************************************************************)
\* a Latin letter without its case and accent; 0 for a combining accent; 32
\* for punctuation, a dash or white space; any other character as it is
PlainLetter(c) ==
    CASE c \in 65..90 -> c + 32
      [] c \in {\h00C9, \h00E9} -> 101
      [] c \in {\h00C0, \h00E0} -> 97
      [] c \in \h0300..\h036F -> 0
      [] IsSpace(c) \/ Category(c) \in {"Po", "Pd", "Ps", "Pe", "Pc"} -> 32
      [] OTHER -> c

\* the words of a name without case, Latin accents and punctuation
WordsModuloSpelling(name) ==
    SplitWs(SelectSeq([i \in 1..Len(name) |-> PlainLetter(name[i])], LAMBDA c : c /= 0))

\* C18: two names that differ only in letter case, in accents on Latin
\* letters or in punctuation and dash characters have equal canonical keys;
\* in particular "Caf(e-acute) (em dash) Building" and "cafe building".
C18_KeyIgnoresCaseAccentPunctuation ==
    cpc = "returned" =>
        (WordsModuloSpelling(args[1]) = WordsModuloSpelling(args[2]) => ret[1] = ret[2])

\* C19: the word written with a final alef maksura (U+0649) and the word
\* written with the final yeh of the second example string (U+06CC) have
\* equal canonical keys.
C19_MaksuraYehSameKey ==
    (cpc = "returned" /\ args = <<Ar_Mabna, Ar_MabnaFarsiYeh>>) => ret[1] = ret[2]

\* a name after normalization, the folding of the Arabic letters and digits
\* and case folding
FoldedName(name) ==
    LET translated == Concat([i \in 1..Len(NFKC(name)) |-> ARABIC_LETTER_MAP(NFKC(name)[i])])
    IN  Casefold([i \in 1..Len(translated) |-> ARABIC_DIGITS_MAP(translated[i])])

IsLetterOrNumber(c) == Category(c) \in {"Lu", "Ll", "Lt", "Lm", "Lo", "Nd", "Nl", "No"}
IsMarkOrFormat(c) == Category(c) \in {"Mn", "Me", "Cf"}

\* runs of spaces collapsed and the ends trimmed
Collapsed(s) == Join(<<32>>, SplitWs(s))

\* C26 as stated: every letter and number of the folded name is kept and
\* every other character, combining marks and format-control characters
\* included, becomes a space; runs of spaces are then collapsed and the
\* result trimmed.
C26_OthersBecomeSpaces ==
    cpc = "returned" =>
        ret[1] = Collapsed([i \in 1..Len(FoldedName(args[1])) |->
                               IF IsLetterOrNumber(FoldedName(args[1])[i])
                               THEN FoldedName(args[1])[i] ELSE 32])

\* C26 amended: combining marks and format-control characters are removed
\* without leaving a space; every letter and number is kept and every other
\* character becomes a space; runs of spaces are then collapsed and the
\* result trimmed.
C26_MarksRemovedOthersBecomeSpaces ==
    cpc = "returned" =>
        LET kept == SelectSeq(FoldedName(args[1]), LAMBDA c : ~IsMarkOrFormat(c))
        IN  ret[1] = Collapsed([i \in 1..Len(kept) |->
                                   IF IsLetterOrNumber(kept[i]) THEN kept[i] ELSE 32])

\* the word with a fatha got the key of the word without it, in one piece, and
\* the name with an em dash got a key of two words
C26_Witness ==
    /\ cpc = "returned"
    /\ args = <<Ar_MabnaFatha, Str_CafeAccentDash>>
    /\ ret[1] = Ar_MabnaYeh
    /\ Len(SplitWs(ret[2])) = 2

\* at least half of the tokens of a list, and at least one, satisfy Test
AtLeastHalf(tokens, Test(_)) ==
    LET n == Cardinality({i \in 1..Len(tokens) : Test(tokens[i])})
    IN  n >= 1 /\ 2 * n >= Len(tokens)

\* what the merger returns when the heuristic does not fire
Unpaired(primary, continuation) == Join(CommaSpace, primary \o continuation)

\* C22 as stated: the heuristic fires exactly when at least half of the
\* primary tokens, and at least 1, are Latin-only and at least half of the
\* continuation tokens, and at least 1, are Arabic-only; otherwise the result
\* is the primary tokens followed by the continuation tokens, unpaired.
C22_FiresAtHalf ==
    cpc = "returned" =>
        ret = IF /\ AtLeastHalf(PrimaryTokens, LatinWithoutArabic)
                 /\ AtLeastHalf(ContinuationTokens, ArabicWithoutLatin)
              THEN Join(CommaSpace, PairedThenLeftovers(PrimaryTokens, ContinuationTokens))
              ELSE Unpaired(PrimaryTokens, ContinuationTokens)

\* C22 amended: the threshold of each side is half of the number of its
\* tokens rounded down, and at least 1.
C22_FiresAtFlooredHalf ==
    cpc = "returned" =>
        ret = IF PairingFires(PrimaryTokens, ContinuationTokens)
              THEN Join(CommaSpace, PairedThenLeftovers(PrimaryTokens, ContinuationTokens))
              ELSE Unpaired(PrimaryTokens, ContinuationTokens)

\* one Latin-only token among three primary tokens was enough to pair, and
\* the call next to it without any Latin-only primary token stays unpaired
C22_Witness ==
    /\ cpc = "returned"
    /\ Len(PrimaryTokens) = 3
    /\ Cardinality({i \in 1..3 : LatinWithoutArabic(PrimaryTokens[i])}) = 1
    /\ Len(ContinuationTokens) = 3
    /\ Cardinality({i \in 1..3 : ArabicWithoutLatin(ContinuationTokens[i])}) = 1
    /\ ret = Join(CommaSpace, PairedThenLeftovers(PrimaryTokens, ContinuationTokens))
    /\ ret /= Unpaired(PrimaryTokens, ContinuationTokens)

(***************************************************************************)
(* _split_bilingual_name called on a name value of its own: up to MaxParts  *)
(* parts, Latin or Arabic, with a separator or a bare hyphen between them   *)
(* and no pipe.                                                            *)
(***************************************************************************)
MaxParts == 3

NameParts == {Str_Logo, Ar_Shiar, Str_LogoColon}

\* " - ", " em-dash ", " / ", "/ " and a hyphen without spaces
PartSeparators == {<<32, 45, 32>>, <<32, \h2014, 32>>, <<32, 47, 32>>, <<47, 32>>, <<45>>}

\* the values of n parts
RECURSIVE ValuesOfParts(_)
ValuesOfParts(n) ==
    IF n = 1 THEN NameParts
    ELSE { v \o sep \o part : v \in ValuesOfParts(n - 1), sep \in PartSeparators, part \in NameParts }

NameValues(n) == UNION { ValuesOfParts(k) : k \in 1..n }

InitSplit ==
    /\ cpc = "input"
    /\ args \in NameValues(MaxParts)
    /\ ret = NoText
    /\ ret2 = NoText
    /\ DedupIdle
    /\ GateIdle
    /\ PipeIdle

\* parsing.py: english, arabic = _split_bilingual_name(asset_value)
SplitName ==
    /\ cpc = "input"
    /\ ret' = _split_bilingual_name(args)
    /\ cpc' = "returned"
    /\ UNCHANGED <<args, ret2>>
    /\ UNCHANGED <<dedupVars, gateVars, pipeVars>>

NextSplit == SplitName

SpecSplit == InitSplit /\ [][NextSplit]_vars

(***************************************************************************)
(* Properties of _split_bilingual_name (SpecSplit).                        *)
(***************************************************************************)
\* the two sides of value around the first occurrence of separator k, trimmed
SidesAt(value, k) ==
    <<Strip(SplitOnce(value, SEPARATORS[k])[1]), Strip(SplitOnce(value, SEPARATORS[k])[2])>>

\* the separators of the list that occur in value with two non-empty sides of
\* which exactly one has Arabic script
AcceptableSeparators(value) ==
    {k \in 1..Len(SEPARATORS) :
        /\ Contains(value, SEPARATORS[k])
        /\ SidesAt(value, k)[1] /= <<>>
        /\ SidesAt(value, k)[2] /= <<>>
        /\ HasArabicScript(SidesAt(value, k)[1]) /= HasArabicScript(SidesAt(value, k)[2])}

ArabicSide(sides) == IF HasArabicScript(sides[1]) THEN sides[1] ELSE sides[2]
OtherSide(sides) == IF HasArabicScript(sides[1]) THEN sides[2] ELSE sides[1]

\* C25: for a value without a pipe, the split returned is the one at the first
\* separator of the list whose two sides are such that exactly one has Arabic
\* script: the side with Arabic is the Arabic name and the other side the
\* English name, on whichever side the Arabic is, each trimmed of separator
\* characters at its edges; the English name of such a split has no Arabic
\* character; when no separator qualifies no split at a separator is made.
C25_FirstOneSidedSplitWins ==
    (cpc = "returned" /\ ~Contains(args, <<124>>)) =>
        LET ok == AcceptableSeparators(args)
            sides == SidesAt(args, SetMin(ok))
        IN  IF ok = {} THEN ret = SplitByScript(args)
            ELSE /\ ret = <<_clean_segment(OtherSide(sides)), _clean_segment(ArabicSide(sides))>>
                 /\ ~HasArabicScript(ret[1])
                 /\ HasArabicScript(ret[2])

\* " - " has Arabic on both of its sides and is passed over; the split is made
\* at " / ", with the Arabic on the left
C25_Witness ==
    /\ cpc = "returned"
    /\ args = Ar_Shiar \o <<32, 45, 32>> \o Ar_Shiar \o <<32, 47, 32>> \o Str_Logo
    /\ ret = <<Str_Logo, Ar_Shiar \o <<32, 45, 32>> \o Ar_Shiar>>

====
